---- MODULE Spec2Model ----
(***************************************************************************)
(* Railway Monitor for VS Code: the deployment tree provider (cache, tree  *)
(* poll, status-change detection), the log viewer panel (log auto-refresh  *)
(* timer) and the extension's teardown.                                    *)
(*                                                                         *)
(* The JavaScript event loop is modelled as it runs the code: a handler    *)
(* runs to its next await on network I/O in one step; the continuation of  *)
(* an await on an already resolved promise is a microtask, which runs      *)
(* before any other timer callback, command or network response.           *)
(***************************************************************************)
EXTENDS Naturals, Sequences, FiniteSets, TLC

(***************************************************************************)
(* Bounds of the model.                                                    *)
(***************************************************************************)
\* ticks that see a deployment while the history window records them
MaxObs == 3
\* getChildren fetches in flight at the same time
MaxInFlight == 2
\* toggleAutoRefresh messages recorded per log view
MaxToggles == 3
\* refreshLogs fetches in flight at the same time
MaxLogFetches == 2
\* authentication errors counted per credential
MaxAuthErrors == 2
\* initialize() calls in flight at the same time
MaxInits == 1
\* changes of the setting whose listener has not run yet
MaxConfigEvents == 1

(***************************************************************************)
(* The remote platform's resources (the environment of the program).       *)
(***************************************************************************)
Projects == <<"p1">>
ProjectEnvironments == <<"e1">>
ProjectServices == <<"s1">>
Deployments == {"d1"}
ServiceItems == {<<"s1", "e1">>}

\* RailwayDeployment.status
Statuses ==
    {"BUILDING", "DEPLOYING", "SUCCESS", "FAILED", "CANCELLED", "CRASHED", "REMOVED", "REMOVING"}

\* the value of Map.get for a key that has no entry (undefined)
None == "undefined"

VARIABLES
    remote,              \* status of each deployment at the remote platform
    projects,            \* DeploymentTreeDataProvider.projects
    environments,        \* DeploymentTreeDataProvider.environments (Map)
    services,            \* DeploymentTreeDataProvider.services (Map)
    deployments,         \* DeploymentTreeDataProvider.deployments (Map)
    deploymentStatuses,  \* DeploymentTreeDataProvider.deploymentStatuses (Map)
    pending,             \* getChildren calls suspended at their fetch
    preClear,            \* history: those of them that started before the last clearCache
    fetchToken,          \* history: the tokens the suspended calls asked with, and the
                         \* token the call that wrote each keyed cache entry asked with
    clearedLevels,       \* history: the levels the last clearCache emptied, until the next cache write
    lastHit,             \* the last getChildren call answered from the cache: level, key, list
    refreshInterval,     \* DeploymentTreeDataProvider.refreshInterval is set
    treeTimers,          \* number of live tree-poll intervals
    ticksInFlight,       \* tree-poll callbacks started and not yet finished
    treeDirty,           \* onDidChangeTreeData fired, the view has not re-read the root
    notice,              \* per deployment, the last notification shown
    seen,                \* history: per deployment, the statuses the ticks saw
    events,              \* history: the calls of notifyDeploymentStatusChange
    currentPanel,        \* LogViewerPanel.currentPanel is set
    livePanels,          \* webview panels created and not disposed
    autoRefreshInterval, \* autoRefreshInterval of the current panel is set
    logTimers,           \* number of live log auto-refresh intervals
    logFetches,          \* refreshLogs calls suspended at their fetch
    autoMsgs,            \* autoRefreshStarted/Stopped messages posted to the current view
    resource,            \* resource and logType of the current panel
    viewLogs,            \* the last updateLogs/clearLogs message the current view received
    latePost,            \* what became of the last updateLogs post addressed to a disposed panel
    deactivated,         \* deactivate() has returned
    call,                \* a call of a RailwayAPI fetch operation and the responses it meets
    result,              \* what that call produced
    apiToken,            \* RailwayAPI.apiToken
    authErrors,          \* authentication errors shown since the token was last changed
    config,              \* the setting railwayMonitor.apiToken
    authHeader,          \* apiClient.defaults.headers.common['Authorization']
    inits,               \* initialize() calls suspended at an await
    configEvents,        \* changes of the setting whose listener has not run yet
    tokenCmd,            \* the token command that is running, and where it is
    sent,                \* the last request the client sent
    commands,            \* the commands registered with the host
    activated,           \* activate() has returned
    initTimer,           \* activate's setTimeout callback has not run yet
    keyUse               \* history: the service items that used the deployments Map

cacheVars ==
    <<projects, environments, services, deployments, pending, preClear, fetchToken,
      clearedLevels,
      lastHit>>
pollVars == <<deploymentStatuses, ticksInFlight, treeDirty, notice, seen, events>>
treeTimerVars == <<refreshInterval, treeTimers>>
logVars ==
    <<currentPanel, livePanels, autoRefreshInterval, logTimers, logFetches, autoMsgs,
      resource, viewLogs, latePost>>
clientVars == <<call, result, apiToken, authErrors>>
tokenVars == <<config, authHeader, inits, configEvents, tokenCmd, sent>>
activationVars == <<commands, activated, initTimer>>
keyVars == <<keyUse>>
vars ==
    <<remote, cacheVars, pollVars, treeTimerVars, logVars, deactivated, clientVars,
      tokenVars, activationVars, keyVars>>

(***************************************************************************)
(* JavaScript Map operations.  A Map is a function whose domain is the     *)
(* set of keys that have an entry.                                         *)
(***************************************************************************)
EmptyMap == << >>
MapHas(m, k) == k \in DOMAIN m
MapGet(m, k) == IF k \in DOMAIN m THEN m[k] ELSE None
\* Map.prototype.set: the value replaces what the key had
MapSetMerging(m, k, v) == (k :> (IF MapHas(m, k) THEN m[k] \o v ELSE v)) @@ m
MapSet(m, k, v) == (k :> v) @@ m

\* `if (!envs)` on the result of Map.get: only a key without an entry is a miss
\* (an empty array is truthy)
CacheMissMutant(m, k) == IF MapHas(m, k) THEN m[k] = << >> ELSE TRUE
CacheMiss(m, k) == ~MapHas(m, k)

\* the key of the deployments Map: `${element.data.id}-${element.data.environmentId}`
DeploymentsKey(serviceId, environmentId) == serviceId \o "-" \o environmentId

(***************************************************************************)
(* RailwayAPI: what the fetch operations return to the tree provider.     *)
(* ok is FALSE when the request fails (transport error, GraphQL errors):  *)
(* every operation then returns the empty list.                           *)
(***************************************************************************)
\* the deployments the remote holds for a (service, environment) pair, in the remote's order
RemoteDeploymentIds(serviceId, environmentId) ==
    IF <<serviceId, environmentId>> \in {<<"s1", "e1">>, <<"a", "b-c">>}
    THEN <<"d1">>
    ELSE << >>

getProjects(ok) == IF ok THEN Projects ELSE << >>
getProjectEnvironments(projectId, ok) ==
    IF ok /\ projectId = "p1" THEN ProjectEnvironments ELSE << >>
getServices(projectId, ok) ==
    IF ok /\ projectId = "p1" THEN ProjectServices ELSE << >>
getDeployments(serviceId, environmentId, ok) ==
    IF ok
    THEN LET ids == RemoteDeploymentIds(serviceId, environmentId)
         IN [i \in 1..Len(ids) |->
                [id |-> ids[i], status |-> remote[ids[i]],
                 serviceId |-> serviceId, environmentId |-> environmentId]]
    ELSE << >>

(***************************************************************************)
(* RailwayAPI: each fetch operation over the responses its POSTs receive. *)
(* A response says how the transport ended (http), what response.data is  *)
(* (body), whether response.data.errors is set (errors) and what          *)
(* response.data.data holds for the query (data): nothing, an object      *)
(* without the field the operation reads, the field with no entries, the  *)
(* field with entries.                                                     *)
(***************************************************************************)
JsonResponses(errorKinds) ==
    [http : {"ok"}, body : {"json"}, errors : errorKinds,
     data : {"none", "bad", "empty", "full"}]
FailedResponses(outcomes) ==
    [http : outcomes, body : {"none"}, errors : {"none"}, data : {"none"}]
OddBodies == [http : {"ok"}, body : {"null", "html"}, errors : {"none"}, data : {"none"}]
\* getProjects tells the HTTP status, an HTML error page and the message of
\* the GraphQL error apart; the other operations do not
ProjectResponses ==
    JsonResponses({"none", "notAuthorized", "other"})
        \cup FailedResponses({"network", "401", "403", "errorPage"}) \cup OddBodies
Responses ==
    JsonResponses({"none", "other"}) \cup FailedResponses({"network", "401", "403"})
        \cup OddBodies
LogResponses ==
    JsonResponses({"none", "other"}) \cup FailedResponses({"network", "401"}) \cup OddBodies
IntrospectionResponses ==
    {r \in LogResponses : r.http = "network" \/ r.body = "null" \/ r.data = "full"}

\* `await this.apiClient.post(...)` rejects: no answer, or a status outside 2xx
Rejects(r) == r.http # "ok"
\* reading response.data.errors throws a TypeError when the body is empty
ReadThrows(r) == r.body = "null"
Throws(r) == Rejects(r) \/ ReadThrows(r)
\* response.data.errors is truthy
HasErrors(r) == r.errors # "none"
\* response.data?.data is truthy
HasData(r) == r.data # "none"
\* the field the operation reads (edges, or the log list) is there
HasField(r) == r.data \in {"empty", "full"}
\* the entities or log lines the field holds
Entities(r) == IF r.data = "full" THEN <<"n1">> ELSE << >>

\* what a call produced: the value returned, the response it was taken from
\* (0: none), whether the promise rejected, the messages shown to the user
Ret(value, from, shown) ==
    [value |-> value, from |-> from, threw |-> FALSE, shown |-> shown]
Thrown == [value |-> << >>, from |-> 0, threw |-> TRUE, shown |-> << >>]

\* getProjects: universal query, then the personal query when it has errors
getProjectsTry(rs) ==
    IF Throws(rs[1]) THEN Thrown
    ELSE IF HasErrors(rs[1])
    THEN IF Throws(rs[2]) THEN Thrown
         ELSE IF HasErrors(rs[2])
         THEN Ret(<< >>, 0, IF rs[2].errors = "notAuthorized" THEN << >>
                                ELSE <<"Railway API error">>)
         ELSE IF HasField(rs[2]) THEN Ret(Entities(rs[2]), 2, << >>)
         ELSE Ret(<< >>, 0, <<"No projects found">>)
    ELSE IF HasField(rs[1]) THEN Ret(Entities(rs[1]), 1, << >>)
    ELSE Ret(<< >>, 0, <<"No projects found">>)
\* the error the try block threw: the first response that throws
Failure(rs) == IF Throws(rs[1]) THEN rs[1] ELSE rs[2]
getProjectsOn(rs) ==
    LET t == getProjectsTry(rs)
    IN IF t.threw
       THEN Ret(<< >>, 0,
                IF Failure(rs).http \in {"401", "403"}
                THEN <<"Railway API authentication failed">>
                ELSE IF Failure(rs).http = "errorPage"
                THEN <<"Railway API returned an error page">>
                ELSE <<"Failed to fetch projects">>)
       ELSE t

\* getProjectEnvironments and getServices: one query
getOneQueryTry(r) ==
    IF Throws(r) THEN Thrown
    ELSE IF HasErrors(r) THEN Ret(<< >>, 0, << >>)
    ELSE IF ~HasField(r) THEN Ret(<< >>, 0, << >>)
    ELSE Ret(Entities(r), 1, << >>)
getProjectEnvironmentsIgnoringErrors(rs) ==
    IF Throws(rs[1]) THEN Ret(<< >>, 0, <<"Failed to fetch environments">>)
    ELSE IF ~HasField(rs[1]) THEN Ret(<< >>, 0, << >>)
    ELSE Ret(Entities(rs[1]), 1, << >>)
getProjectEnvironmentsOn(rs) ==
    LET t == getOneQueryTry(rs[1])
    IN IF t.threw THEN Ret(<< >>, 0, <<"Failed to fetch environments">>) ELSE t
getServicesNoCatch(rs) == getOneQueryTry(rs[1])
getServicesOn(rs) ==
    LET t == getOneQueryTry(rs[1])
    IN IF t.threw THEN Ret(<< >>, 0, <<"Failed to fetch services">>) ELSE t

\* getDeployments: first query, then the alternative query when it has errors
getDeploymentsTry(rs) ==
    IF Throws(rs[1]) THEN Thrown
    ELSE IF HasErrors(rs[1])
    THEN IF Throws(rs[2]) THEN Thrown
         ELSE IF HasErrors(rs[2]) THEN Ret(<< >>, 0, << >>)
         ELSE IF HasField(rs[2]) THEN Ret(Entities(rs[2]), 2, << >>)
         ELSE Ret(<< >>, 0, << >>)
    ELSE IF HasField(rs[1]) THEN Ret(Entities(rs[1]), 1, << >>)
    ELSE Ret(<< >>, 0, << >>)
getDeploymentsOn(rs) ==
    LET t == getDeploymentsTry(rs) IN IF t.threw THEN Ret(<< >>, 0, << >>) ELSE t

\* the loop over the log queries from query i on: a query whose POST or
\* whose reading throws is caught and skipped; `accepted` says which
\* extracted lists end the loop
RECURSIVE TryQueries(_, _, _, _)
TryQueries(rs, i, accepted, warning) ==
    IF i > Len(rs) THEN Ret(<< >>, 0, <<warning>>)
    ELSE IF ~Throws(rs[i]) /\ ~HasErrors(rs[i]) /\ HasData(rs[i]) /\ rs[i].data \in accepted
    THEN Ret(Entities(rs[i]), i, << >>)
    ELSE TryQueries(rs, i + 1, accepted, warning)

\* getDeploymentLogs: `if (logs) return logs`, an empty array is truthy
getDeploymentLogsOn(rs) ==
    TryQueries(rs, 1, {"empty", "full"}, "Unable to fetch deployment logs")
\* getApplicationLogs: the introspection query in its own try/catch (rs[1],
\* only logged), then `if (logs && logs.length > 0) return logs`
getApplicationLogsOn(rs) ==
    TryQueries(rs, 2, {"full"}, "Unable to fetch application logs")

\* the calls of the fetch operations: the operation and the responses its
\* POSTs receive, in the order they are sent
ApiCalls ==
    [op : {"getProjects"}, responses : ProjectResponses \X ProjectResponses]
        \cup [op : {"getProjectEnvironments", "getServices"}, responses : {<<r>> : r \in Responses}]
        \cup [op : {"getDeployments"}, responses : Responses \X Responses]
        \cup [op : {"getDeploymentLogs"},
              responses : LogResponses \X LogResponses \X LogResponses]
        \cup [op : {"getApplicationLogs"},
              responses : IntrospectionResponses \X LogResponses \X LogResponses
                              \X LogResponses \X LogResponses]
NoCall == [op |-> "none", responses |-> << >>]
NoResult == [value |-> << >>, from |-> 0, threw |-> FALSE, shown |-> << >>, done |-> FALSE]
Apply(c) ==
    CASE c.op = "getProjects" -> getProjectsOn(c.responses)
      [] c.op = "getProjectEnvironments" -> getProjectEnvironmentsOn(c.responses)
      [] c.op = "getServices" -> getServicesOn(c.responses)
      [] c.op = "getDeployments" -> getDeploymentsOn(c.responses)
      [] c.op = "getDeploymentLogs" -> getDeploymentLogsOn(c.responses)
      [] c.op = "getApplicationLogs" -> getApplicationLogsOn(c.responses)

(***************************************************************************)
(* The event loop.                                                         *)
(***************************************************************************)
\* Whether `await this.checkDeploymentStatuses()` gives the turn to other
\* timer callbacks, commands and responses: checkDeploymentStatuses awaits
\* nothing, so its promise is already resolved and the rest of the callback
\* runs as a microtask.
CheckYieldsMutant == TRUE
CheckYields == FALSE

\* a new task (timer callback, command, view request, response) may start
LoopFree == ticksInFlight = 0 \/ CheckYields

\* fetches of getChildren in flight: <<level, first id, second id>>
FetchKeys ==
    {<<"projects", "", "">>, <<"environments", "p1", "">>, <<"services", "p1", "">>}
        \cup {<<"deployments", it[1], it[2]>> : it \in ServiceItems}
InFlight == LET RECURSIVE Sum(_)
                Sum(S) == IF S = {} THEN 0
                          ELSE LET k == CHOOSE x \in S : TRUE
                               IN pending[k] + Sum(S \ {k})
            IN Sum(FetchKeys)
NoFetchToken == [asked |-> [k \in FetchKeys |-> {}], wrote |-> [k \in FetchKeys |-> {}]]
StartFetch(k) ==
    /\ pending' = [pending EXCEPT ![k] = @ + 1]
    /\ fetchToken' = [fetchToken EXCEPT !.asked[k] = @ \cup {apiToken}]
    /\ UNCHANGED preClear
\* the tokens of the calls for k still suspended when one that asked with
\* token c has resumed and `left` calls remain
StillAsked(k, c, left) ==
    {rest \in {fetchToken.asked[k], fetchToken.asked[k] \ {c}} :
        /\ Cardinality(rest) <= left
        /\ rest = {} <=> left = 0}
\* a response settles the one call that sent its request
\* (the responses arrive in any order: old says whether the call started
\* before the last clearCache)
EndFetchCoalescing(k) ==
    /\ pending' = [pending EXCEPT ![k] = 0]
    /\ preClear' = [preClear EXCEPT ![k] = 0]
    /\ \E c \in fetchToken.asked[k] :
          fetchToken' = [fetchToken EXCEPT !.asked[k] = {},
                                           !.wrote[k] = IF k[1] = "projects" THEN @ ELSE {c}]
EndFetch(k) ==
    /\ pending' = [pending EXCEPT ![k] = @ - 1]
    /\ \E old \in BOOLEAN :
          /\ IF old THEN preClear[k] > 0 ELSE pending[k] > preClear[k]
          /\ preClear' = IF old THEN [preClear EXCEPT ![k] = @ - 1] ELSE preClear
    /\ \E c \in fetchToken.asked[k] : \E rest \in StillAsked(k, c, pending[k] - 1) :
          fetchToken' = [fetchToken EXCEPT !.asked[k] = rest,
                                           !.wrote[k] = IF k[1] = "projects" THEN @ ELSE {c}]

(***************************************************************************)
(* DeploymentTreeDataProvider: status-change detection.                   *)
(***************************************************************************)
NotifyNone == [kind |-> "none", actions |-> {}]

\* notifyDeploymentStatusChange: the notification it shows
notifyDeploymentStatusChangeNoCrash(previousStatus, currentStatus) ==
    LET wasBuilding == previousStatus \in {"BUILDING", "DEPLOYING"}
    IN IF wasBuilding
       THEN IF currentStatus = "SUCCESS"
            THEN [kind |-> "information", actions |-> {"View Logs"}]
            ELSE IF currentStatus = "FAILED"
            THEN [kind |-> "error", actions |-> {"View Logs"}]
            ELSE IF currentStatus = "CANCELLED"
            THEN [kind |-> "warning", actions |-> {}]
            ELSE NotifyNone
       ELSE NotifyNone
notifyDeploymentStatusChangeMutant(previousStatus, currentStatus) ==
    LET wasBuilding == previousStatus \in {"BUILDING"}
    IN IF wasBuilding
       THEN IF currentStatus = "SUCCESS"
            THEN [kind |-> "information", actions |-> {"View Logs"}]
            ELSE IF currentStatus = "FAILED" \/ currentStatus = "CRASHED"
            THEN [kind |-> "error", actions |-> {"View Logs"}]
            ELSE IF currentStatus = "CANCELLED"
            THEN [kind |-> "warning", actions |-> {}]
            ELSE NotifyNone
       ELSE NotifyNone
notifyDeploymentStatusChange(previousStatus, currentStatus) ==
    LET wasBuilding == previousStatus \in {"BUILDING", "DEPLOYING"}
    IN IF wasBuilding
       THEN IF currentStatus = "SUCCESS"
            THEN [kind |-> "information", actions |-> {"View Logs"}]
            ELSE IF currentStatus = "FAILED" \/ currentStatus = "CRASHED"
            THEN [kind |-> "error", actions |-> {"View Logs"}]
            ELSE IF currentStatus = "CANCELLED"
            THEN [kind |-> "warning", actions |-> {}]
            ELSE NotifyNone
       ELSE NotifyNone

\* `previousStatus && previousStatus !== currentStatus`
StatusChangedMutant(previousStatus, currentStatus) ==
    previousStatus # currentStatus
StatusChanged(previousStatus, currentStatus) ==
    previousStatus # None /\ previousStatus # currentStatus

\* `this.deploymentStatuses.set(deployment.id, currentStatus)`
StoreStatusPruning(statuses, id, currentStatus) ==
    IF currentStatus = "REMOVED"
    THEN [k \in DOMAIN statuses \ {id} |-> statuses[k]]
    ELSE MapSet(statuses, id, currentStatus)
StoreStatusMutant(statuses, id, currentStatus) ==
    IF MapHas(statuses, id) THEN statuses ELSE MapSet(statuses, id, currentStatus)
StoreStatus(statuses, id, currentStatus) ==
    MapSet(statuses, id, currentStatus)

\* the inner loop of checkDeploymentStatuses over one deployment list;
\* st carries deploymentStatuses, the notifications and the history
RECURSIVE CheckList(_, _, _)
CheckList(deploymentList, st, record) ==
    IF deploymentList = << >> THEN st
    ELSE LET deployment == Head(deploymentList)
             previousStatus == MapGet(st.statuses, deployment.id)
             currentStatus == deployment.status
             changed == StatusChanged(previousStatus, currentStatus)
             shown == notifyDeploymentStatusChange(previousStatus, currentStatus)
             event == [id |-> deployment.id, from |-> previousStatus,
                       to |-> currentStatus, kind |-> shown.kind,
                       actions |-> shown.actions]
         IN CheckList(Tail(deploymentList),
                [statuses |-> StoreStatus(st.statuses, deployment.id, currentStatus),
                 notice |-> IF changed /\ shown.kind # "none"
                            THEN [st.notice EXCEPT ![deployment.id] = shown.kind]
                            ELSE st.notice,
                 seen |-> IF record
                          THEN [st.seen EXCEPT ![deployment.id] = Append(@, currentStatus)]
                          ELSE st.seen,
                 events |-> IF record /\ changed
                            THEN Append(st.events, event)
                            ELSE st.events],
                record)

\* the outer loop of checkDeploymentStatuses over the entries of the deployments Map
RECURSIVE CheckEntries(_, _, _)
CheckEntries(keys, st, record) ==
    IF keys = {} THEN st
    ELSE LET key == CHOOSE k \in keys : TRUE
         IN CheckEntries(keys \ {key}, CheckList(deployments[key], st, record), record)

checkDeploymentStatuses(record) ==
    CheckEntries(DOMAIN deployments,
                 [statuses |-> deploymentStatuses, notice |-> notice,
                  seen |-> seen, events |-> events],
                 record)

\* the history window still has room for what the next tick sees
WindowOpen == \A d \in Deployments : Len(seen[d]) < MaxObs

\* the interval callback of startAutoRefresh, up to its await;
\* record says whether the history window records the tick
TickFire(record) ==
    /\ treeTimers > 0
    /\ LoopFree
    /\ record => WindowOpen
    /\ LET st == checkDeploymentStatuses(record)
       IN /\ deploymentStatuses' = st.statuses
          /\ notice' = st.notice
          /\ seen' = st.seen
          /\ events' = st.events
    /\ ticksInFlight' = ticksInFlight + 1
    /\ UNCHANGED <<remote, cacheVars, treeDirty, treeTimerVars, logVars, deactivated,
                   clientVars, tokenVars, activationVars, keyVars>>

\* refresh(): onDidChangeTreeData fires, the view is to be rendered again
refreshMutant(dirty) == dirty
refresh(dirty) == TRUE

\* the rest of the interval callback: this.refresh()
TickResume ==
    /\ ticksInFlight > 0
    /\ ticksInFlight' = ticksInFlight - 1
    /\ treeDirty' = refresh(treeDirty)
    /\ UNCHANGED <<remote, cacheVars, deploymentStatuses, notice, seen, events,
                   treeTimerVars, logVars, deactivated, clientVars, tokenVars,
                   activationVars, keyVars>>

(***************************************************************************)
(* DeploymentTreeDataProvider: getChildren and clearCache.  The element    *)
(* is the view's input; a call that finds its list in the cache returns    *)
(* it and changes nothing.                                                 *)
(***************************************************************************)
\* the host calls the provider and the commands only while the extension is active
HostCall == ~deactivated /\ LoopFree

\* getChildren(): `this.projects = await this.railwayAPI.getProjects()`, up to the await
GetChildrenRoot ==
    /\ HostCall
    /\ InFlight < MaxInFlight
    /\ StartFetch(<<"projects", "", "">>)
    /\ treeDirty' = FALSE
    /\ UNCHANGED <<remote, clearedLevels, lastHit, projects, environments, services,
                   deployments,
                   deploymentStatuses, ticksInFlight, notice, seen, events,
                   treeTimerVars, logVars, deactivated, clientVars, tokenVars,
                   activationVars, keyVars>>

ProjectsReturn(ok) ==
    /\ LoopFree
    /\ pending[<<"projects", "", "">>] > 0
    /\ EndFetch(<<"projects", "", "">>)
    /\ projects' = getProjects(ok)
    /\ clearedLevels' = {}
    /\ UNCHANGED <<remote, lastHit, environments, services, deployments, pollVars,
                   treeTimerVars, logVars, deactivated, clientVars, tokenVars,
                   activationVars, keyVars>>

\* the responses of a getProjects call whose credential the remote rejects
Unauthorized == [http |-> "401", body |-> "none", errors |-> "none", data |-> "none"]
AuthFailed(shown) ==
    Cardinality({i \in DOMAIN shown : shown[i] = "Railway API authentication failed"})

\* getChildren() resumes with the result of a getProjects call that the
\* remote answered with 401
ProjectsRejected ==
    /\ LoopFree
    /\ pending[<<"projects", "", "">>] > 0
    /\ authErrors < MaxAuthErrors
    /\ EndFetch(<<"projects", "", "">>)
    /\ LET r == getProjectsOn(<<Unauthorized, Unauthorized>>)
       IN /\ projects' = r.value
          /\ authErrors' = authErrors + AuthFailed(r.shown)
    /\ clearedLevels' = {}
    /\ UNCHANGED <<remote, lastHit, environments, services, deployments, pollVars,
                   treeTimerVars, logVars, deactivated, call, result, apiToken,
                   tokenVars, activationVars, keyVars>>

\* the view reads the root again after onDidChangeTreeData has fired
AutoRender == treeDirty /\ GetChildrenRoot

\* getChildren(project element), cache miss, up to the await
GetChildrenProject(projectId) ==
    /\ HostCall
    /\ InFlight < MaxInFlight
    /\ CacheMiss(environments, projectId)
    /\ StartFetch(<<"environments", projectId, "">>)
    /\ UNCHANGED <<remote, clearedLevels, lastHit, projects, environments, services,
                   deployments, pollVars,
                   treeTimerVars, logVars, deactivated, clientVars, tokenVars,
                   activationVars, keyVars>>

EnvironmentsReturn(projectId, ok) ==
    /\ LoopFree
    /\ pending[<<"environments", projectId, "">>] > 0
    /\ EndFetch(<<"environments", projectId, "">>)
    /\ environments' = MapSet(environments, projectId, getProjectEnvironments(projectId, ok))
    /\ clearedLevels' = {}
    /\ UNCHANGED <<remote, lastHit, projects, services, deployments, pollVars,
                   treeTimerVars, logVars, deactivated, clientVars, tokenVars,
                   activationVars, keyVars>>

\* getChildren(environment element), cache miss, up to the await
GetChildrenEnvironment(projectId) ==
    /\ HostCall
    /\ InFlight < MaxInFlight
    /\ CacheMiss(services, projectId)
    /\ StartFetch(<<"services", projectId, "">>)
    /\ UNCHANGED <<remote, clearedLevels, lastHit, projects, environments, services,
                   deployments, pollVars,
                   treeTimerVars, logVars, deactivated, clientVars, tokenVars,
                   activationVars, keyVars>>

ServicesReturn(projectId, ok) ==
    /\ LoopFree
    /\ pending[<<"services", projectId, "">>] > 0
    /\ EndFetch(<<"services", projectId, "">>)
    /\ services' = MapSet(services, projectId, getServices(projectId, ok))
    /\ clearedLevels' = {}
    /\ UNCHANGED <<remote, lastHit, projects, environments, deployments, pollVars,
                   treeTimerVars, logVars, deactivated, clientVars, tokenVars,
                   activationVars, keyVars>>

\* getChildren(service element), cache miss, up to the await
GetChildrenService(serviceId, environmentId) ==
    /\ HostCall
    /\ InFlight < MaxInFlight
    /\ CacheMiss(deployments, DeploymentsKey(serviceId, environmentId))
    /\ StartFetch(<<"deployments", serviceId, environmentId>>)
    /\ UNCHANGED <<remote, clearedLevels, lastHit, projects, environments, services,
                   deployments, pollVars,
                   treeTimerVars, logVars, deactivated, clientVars, tokenVars,
                   activationVars, keyVars>>

DeploymentsReturn(serviceId, environmentId, ok) ==
    /\ LoopFree
    /\ pending[<<"deployments", serviceId, environmentId>>] > 0
    /\ EndFetch(<<"deployments", serviceId, environmentId>>)
    /\ deployments' = MapSet(deployments, DeploymentsKey(serviceId, environmentId),
                             getDeployments(serviceId, environmentId, ok))
    /\ clearedLevels' = {}
    /\ UNCHANGED <<remote, lastHit, projects, environments, services, pollVars,
                   treeTimerVars, logVars, deactivated, clientVars, tokenVars,
                   activationVars, keyVars>>

\* getChildren(project, environment or service element) that finds its list
\* in the cache: no fetch, the items are built from the cached list
NoHit == [level |-> "none", key |-> "", list |-> << >>]
GetChildrenHit(level, m, key) ==
    /\ HostCall
    /\ ~CacheMiss(m, key)
    /\ lastHit' = [level |-> level, key |-> key, list |-> m[key]]
    /\ UNCHANGED <<remote, projects, environments, services, deployments, pending,
                   preClear, fetchToken,
                   clearedLevels, pollVars, treeTimerVars, logVars, deactivated,
                   clientVars, tokenVars, activationVars, keyVars>>

\* the service items that used the deployments Map: the item whose fetch is
\* in flight, the item whose fetch wrote each entry, the item that last
\* read an entry
NoItem == << >>
NoUse == [inFlight |-> NoItem, writer |-> EmptyMap, reader |-> NoItem]
\* service items of projects whose ids contain the separator
KeyItems == {"a", "a-b"} \X {"c", "b-c"}

\* getChildren(service element) for any service item, cache miss, up to the await
GetChildrenServiceItem(item) ==
    /\ HostCall
    /\ keyUse.inFlight = NoItem
    /\ CacheMiss(deployments, DeploymentsKey(item[1], item[2]))
    /\ keyUse' = [keyUse EXCEPT !.inFlight = item]
    /\ UNCHANGED <<remote, cacheVars, pollVars, treeTimerVars, logVars, deactivated,
                   clientVars, tokenVars, activationVars>>

\* ... and after the await: the list is stored under the item's key
ServiceItemReturn(ok) ==
    /\ LoopFree
    /\ keyUse.inFlight # NoItem
    /\ LET item == keyUse.inFlight
           key == DeploymentsKey(item[1], item[2])
       IN /\ deployments' = MapSet(deployments, key, getDeployments(item[1], item[2], ok))
          /\ keyUse' = [keyUse EXCEPT !.inFlight = NoItem,
                                      !.writer = MapSet(keyUse.writer, key, item)]
    /\ clearedLevels' = {}
    /\ UNCHANGED <<remote, projects, environments, services, pending, preClear, fetchToken,
                   lastHit,
                   pollVars,
                   treeTimerVars, logVars, deactivated, clientVars, tokenVars,
                   activationVars>>

\* getChildren(service element) for any service item, cache hit
ServiceItemHit(item) ==
    /\ HostCall
    /\ ~CacheMiss(deployments, DeploymentsKey(item[1], item[2]))
    /\ lastHit' = [level |-> "deployments", key |-> DeploymentsKey(item[1], item[2]),
                   list |-> deployments[DeploymentsKey(item[1], item[2])]]
    /\ keyUse' = [keyUse EXCEPT !.reader = item]
    /\ UNCHANGED <<remote, projects, environments, services, deployments, pending,
                   preClear, fetchToken,
                   clearedLevels, pollVars, treeTimerVars, logVars, deactivated,
                   clientVars, tokenVars, activationVars>>

\* the cache levels that hold something
PopulatedLevels ==
    {l \in {"projects"} : projects # << >>}
        \cup {l \in {"environments"} : DOMAIN environments # {}}
        \cup {l \in {"services"} : DOMAIN services # {}}
        \cup {l \in {"deployments"} : DOMAIN deployments # {}}

\* what clearCache leaves in the four cache levels
clearCacheMutant ==
    [projects |-> << >>, environments |-> EmptyMap,
     services |-> services, deployments |-> EmptyMap]
clearCache ==
    [projects |-> << >>, environments |-> EmptyMap,
     services |-> EmptyMap, deployments |-> EmptyMap]

\* the command railwayMonitor.refreshDeployments: clearCache(), which ends with refresh()
ClearCacheForgetting ==
    /\ HostCall
    /\ "railwayMonitor.refreshDeployments" \in commands
    /\ projects' = clearCache.projects
    /\ environments' = clearCache.environments
    /\ services' = clearCache.services
    /\ deployments' = clearCache.deployments
    /\ deploymentStatuses' = EmptyMap
    /\ clearedLevels' = PopulatedLevels
    /\ preClear' = pending
    /\ fetchToken' = [fetchToken EXCEPT !.wrote = NoFetchToken.wrote]
    /\ treeDirty' = TRUE
    /\ UNCHANGED <<remote, pending, lastHit, ticksInFlight, notice,
                   seen, events, treeTimerVars, logVars, deactivated, clientVars,
                   tokenVars, activationVars, keyVars>>
ClearCache ==
    /\ HostCall
    /\ "railwayMonitor.refreshDeployments" \in commands
    /\ projects' = clearCache.projects
    /\ environments' = clearCache.environments
    /\ services' = clearCache.services
    /\ deployments' = clearCache.deployments
    /\ clearedLevels' = PopulatedLevels
    /\ preClear' = pending
    /\ fetchToken' = [fetchToken EXCEPT !.wrote = NoFetchToken.wrote]
    /\ treeDirty' = TRUE
    /\ UNCHANGED <<remote, pending, lastHit, deploymentStatuses, ticksInFlight, notice,
                   seen, events, treeTimerVars, logVars, deactivated, clientVars,
                   tokenVars, activationVars, keyVars>>

\* the remote platform moves a deployment to another status
RemoteChange(d, status) ==
    /\ status # remote[d]
    /\ remote' = [remote EXCEPT ![d] = status]
    /\ UNCHANGED <<cacheVars, pollVars, treeTimerVars, logVars, deactivated, clientVars,
                   tokenVars, activationVars, keyVars>>

\* the commands activate() registers
Commands ==
    {"railwayMonitor.refreshDeployments", "railwayMonitor.showDeploymentLogs",
     "railwayMonitor.showApplicationLogs", "railwayMonitor.setApiToken",
     "railwayMonitor.clearApiToken"}

(***************************************************************************)
(* RailwayAPI: the credential.  A token is a string, modelled as the       *)
(* sequence of its characters; NoToken is `undefined`.  The Authorization  *)
(* default header of the HTTP client is a string too, NoHeader when the    *)
(* client has none.                                                        *)
(***************************************************************************)
NoToken == <<"undefined">>
NoHeader == << >>
Tokens == {<<"a">>, <<" ", "b", " ">>, <<" ">>}
Settings == Tokens \cup {NoToken}
\* `!token`: undefined and the empty string are falsy
Falsy(token) == token = NoToken \/ token = << >>

RECURSIVE TrimStart(_)
TrimStart(s) == IF s # << >> /\ Head(s) = " " THEN TrimStart(Tail(s)) ELSE s
RECURSIVE TrimEnd(_)
TrimEnd(s) ==
    IF s # << >> /\ s[Len(s)] = " " THEN TrimEnd(SubSeq(s, 1, Len(s) - 1)) ELSE s
\* String.prototype.trim
trimMutant(s) == s
trim(s) == TrimEnd(TrimStart(s))
\* `Bearer ${token}`
Bearer(token) == <<"Bearer", " ">> \o token

\* initialize() from the token getApiToken() returned to its first request:
\* the token field, the Authorization header, and whether it goes on
SetCredential(token) ==
    IF Falsy(token)
    THEN [apiToken |-> token, header |-> authHeader, goesOn |-> FALSE]
    ELSE [apiToken |-> trim(token), header |-> Bearer(trim(token)), goesOn |-> TRUE]

\* GraphQL error messages, as the sequences of their words; << >> is an
\* error without a message
ErrorMessages ==
    {<<"not", "authorized">>, <<"Not", "Authorized">>,
     <<"User", "is", "NOT", "AUTHORIZED">>, <<"authorized", "not">>, <<"Not">>,
     <<"Problem", "processing", "request">>, << >>}
\* String.prototype.toLowerCase
LowerWord(w) ==
    CASE w \in {"not", "Not", "NOT"} -> "not"
      [] w \in {"authorized", "Authorized", "AUTHORIZED"} -> "authorized"
      [] w = "User" -> "user"
      [] w = "Problem" -> "problem"
      [] w = "Unknown" -> "unknown"
      [] OTHER -> w
toLowerCaseMutant(s) == s
toLowerCase(s) == [i \in DOMAIN s |-> LowerWord(s[i])]
\* String.prototype.includes
Includes(s, part) ==
    \E i \in 1..(Len(s) - Len(part) + 1) : SubSeq(s, i, i + Len(part) - 1) = part

\* the responses to the two requests of initialize: as for the fetch
\* operations, with the message of the first GraphQL error, and with a
\* body that is a string without '<html'
InitializeErrors ==
    [http : {"ok"}, body : {"json"}, errors : {"other"}, data : {"none", "full"},
     message : ErrorMessages]
InitializeResponses ==
    [http : {"network", "401", "403"}, body : {"none"}, errors : {"none"},
     data : {"none"}, message : {<< >>}]
        \cup [http : {"ok"}, body : {"json", "null", "html", "text"}, errors : {"none"},
              data : {"none", "full"}, message : {<< >>}]
        \cup InitializeErrors
\* an introspection request that was answered
Reachable ==
    [http |-> "ok", body |-> "json", errors |-> "none", data |-> "full", message |-> << >>]

\* `response.data.errors[0]?.message || 'Unknown error'`
ErrorMessage(r) == IF r.message = << >> THEN <<"Unknown", "error">> ELSE r.message

\* initialize, the try block: the introspection request, then the test
\* request and what its response is taken for
initializeTry(rs) ==
    IF Rejects(rs[1]) THEN Thrown
    ELSE IF Rejects(rs[2]) THEN Thrown
    ELSE IF rs[2].body = "html"
    THEN Ret(FALSE, 2, <<"Railway API token appears to be invalid">>)
    ELSE IF ReadThrows(rs[2]) THEN Thrown
    ELSE IF HasErrors(rs[2])
    THEN IF Includes(toLowerCase(ErrorMessage(rs[2])), <<"not", "authorized">>)
         THEN Ret(TRUE, 2, << >>)
         ELSE Ret(FALSE, 2, <<"Railway API error">>)
    ELSE Ret(TRUE, 2, << >>)

\* initialize, the catch block: the message depends on the HTTP status of
\* the request that failed
initializeCatch(rs) ==
    LET failed == IF Rejects(rs[1]) THEN rs[1] ELSE rs[2]
    IN IF failed.http \in {"401", "403"}
       THEN Ret(FALSE, 0, <<"Railway API authentication failed">>)
       ELSE Ret(FALSE, 0, <<"Failed to connect to Railway API">>)

\* initialize, from the token getApiToken returned
initializeOn(token, rs) ==
    IF ~SetCredential(token).goesOn THEN Ret(FALSE, 0, << >>)
    ELSE IF initializeTry(rs).threw THEN initializeCatch(rs)
    ELSE initializeTry(rs)

\* the calls of initialize: the token getApiToken returns and the responses
\* to the introspection request and the test request
InitializeCalls ==
    [op : {"initialize"}, token : Settings \cup {<< >>},
     responses : InitializeResponses \X InitializeResponses]

\* a request of the client, as the server sees it: the Authorization header
\* it carries and the token the client holds when it is sent
Request(header, token) == [header |-> header, token |-> token]
NoRequest == Request(NoHeader, NoToken)

\* the token commands: no command running
Idle == [pc |-> "idle", token |-> NoToken]
Callers == {"activate", "config", "setToken"}

\* an initialize() call returns to its caller: refresh() when it returned
\* true; the setApiToken command is over
InitializeReturns(i, ok) ==
    /\ inits' = [j \in 1..(Len(inits) - 1) |-> IF j < i THEN inits[j] ELSE inits[j + 1]]
    /\ treeDirty' = (treeDirty \/ ok)
    /\ tokenCmd' = IF inits[i].caller = "setToken" THEN Idle ELSE tokenCmd

\* initialize() is called: getApiToken() reads the setting; with a token
\* there, the credential is set and the introspection request is sent;
\* without one, the input box is shown
InitializeStarts(caller) ==
    /\ Len(inits) < MaxInits
    /\ IF Falsy(config)
       THEN /\ inits' = Append(inits, [pc |-> "prompt", caller |-> caller, token |-> NoToken])
            /\ UNCHANGED <<apiToken, authHeader, sent>>
       ELSE LET c == SetCredential(config)
            IN /\ apiToken' = c.apiToken
               /\ authHeader' = c.header
               /\ sent' = Request(c.header, c.apiToken)
               /\ inits' = Append(inits, [pc |-> "introspection", caller |-> caller,
                                          token |-> NoToken])

\* the callback of activate's setTimeout
BackgroundInitialize ==
    /\ LoopFree
    /\ initTimer
    /\ initTimer' = FALSE
    /\ InitializeStarts("activate")
    /\ UNCHANGED <<remote, cacheVars, pollVars, treeTimerVars, logVars, deactivated, call,
                   result, authErrors, config, configEvents, tokenCmd, commands,
                   activated, keyVars>>

\* the user edits railwayMonitor.apiToken in the settings
EditSettings(value) ==
    /\ HostCall
    /\ value # config
    /\ configEvents < MaxConfigEvents
    /\ config' = value
    /\ configEvents' = configEvents + 1
    /\ UNCHANGED <<remote, cacheVars, pollVars, treeTimerVars, logVars, deactivated,
                   clientVars, authHeader, inits, tokenCmd, sent, activationVars, keyVars>>

\* the onDidChangeConfiguration listener runs for a change of the setting
OnDidChangeConfiguration ==
    /\ LoopFree
    /\ configEvents > 0
    /\ configEvents' = configEvents - 1
    /\ InitializeStarts("config")
    /\ UNCHANGED <<remote, cacheVars, pollVars, treeTimerVars, logVars, deactivated, call,
                   result, authErrors, config, tokenCmd, activationVars, keyVars>>

\* getApiToken(): the input box is closed, with an input or without one
PromptAnswered(i, input) ==
    /\ LoopFree
    /\ i \in DOMAIN inits
    /\ inits[i].pc = "prompt"
    /\ IF Falsy(input)
       THEN /\ apiToken' = SetCredential(input).apiToken
            /\ authHeader' = SetCredential(input).header
            /\ InitializeReturns(i, FALSE)
            /\ UNCHANGED <<config, configEvents>>
       ELSE /\ configEvents < MaxConfigEvents
            /\ config' = trim(input)
            /\ configEvents' = configEvents + 1
            /\ inits' = [inits EXCEPT ![i].pc = "saving", ![i].token = trim(input)]
            /\ UNCHANGED <<apiToken, authHeader, treeDirty, tokenCmd>>
    /\ UNCHANGED <<remote, cacheVars, deploymentStatuses, ticksInFlight, notice, seen,
                   events, treeTimerVars, logVars, deactivated, call, result, authErrors,
                   sent, activationVars, keyVars>>

\* getApiToken(): the setting is saved, the entered token is returned
TokenSaved(i) ==
    /\ LoopFree
    /\ i \in DOMAIN inits
    /\ inits[i].pc = "saving"
    /\ LET c == SetCredential(inits[i].token)
       IN /\ apiToken' = c.apiToken
          /\ authHeader' = c.header
          /\ IF c.goesOn
             THEN /\ sent' = Request(c.header, c.apiToken)
                  /\ inits' = [inits EXCEPT ![i].pc = "introspection"]
                  /\ UNCHANGED <<treeDirty, tokenCmd>>
             ELSE /\ InitializeReturns(i, FALSE)
                  /\ UNCHANGED sent
    /\ UNCHANGED <<remote, cacheVars, deploymentStatuses, ticksInFlight, notice, seen,
                   events, treeTimerVars, logVars, deactivated, call, result, authErrors,
                   config, configEvents, activationVars, keyVars>>

\* initialize(): the introspection request is answered; the test request
\* is sent unless it was rejected
IntrospectionAnswered(i, r) ==
    /\ LoopFree
    /\ i \in DOMAIN inits
    /\ inits[i].pc = "introspection"
    /\ IF Rejects(r)
       THEN InitializeReturns(i, FALSE) /\ UNCHANGED sent
       ELSE /\ inits' = [inits EXCEPT ![i].pc = "test"]
            /\ sent' = Request(authHeader, apiToken)
            /\ UNCHANGED <<treeDirty, tokenCmd>>
    /\ UNCHANGED <<remote, cacheVars, deploymentStatuses, ticksInFlight, notice, seen,
                   events, treeTimerVars, logVars, deactivated, clientVars, config,
                   authHeader, configEvents, activationVars, keyVars>>

\* initialize(): the test request is answered
TestAnswered(i, r) ==
    /\ LoopFree
    /\ i \in DOMAIN inits
    /\ inits[i].pc = "test"
    /\ InitializeReturns(i, initializeOn(apiToken, <<Reachable, r>>).value)
    /\ UNCHANGED <<remote, cacheVars, deploymentStatuses, ticksInFlight, notice, seen,
                   events, treeTimerVars, logVars, deactivated, clientVars, config,
                   authHeader, configEvents, sent, activationVars, keyVars>>

\* the command railwayMonitor.clearApiToken, confirmed: clearApiToken()
\* up to its await of the settings update
ClearApiToken ==
    /\ HostCall
    /\ "railwayMonitor.clearApiToken" \in commands
    /\ tokenCmd = Idle
    /\ configEvents < MaxConfigEvents
    /\ config' = NoToken
    /\ configEvents' = configEvents + 1
    /\ tokenCmd' = [pc |-> "clearing", token |-> NoToken]
    /\ UNCHANGED <<remote, cacheVars, pollVars, treeTimerVars, logVars, deactivated,
                   clientVars, authHeader, inits, sent, activationVars, keyVars>>

\* clearApiToken() completes: the token and the header are dropped; then
\* refresh()
ClearApiTokenDone ==
    /\ LoopFree
    /\ tokenCmd.pc = "clearing"
    /\ apiToken' = NoToken
    /\ authHeader' = NoHeader
    /\ authErrors' = 0
    /\ treeDirty' = TRUE
    /\ tokenCmd' = Idle
    /\ UNCHANGED <<remote, cacheVars, deploymentStatuses, ticksInFlight, notice, seen,
                   events, treeTimerVars, logVars, deactivated, call, result, config,
                   inits, configEvents, sent, activationVars, keyVars>>

\* the command railwayMonitor.setApiToken with a token entered, up to the
\* await in clearApiToken()
SetApiToken(token) ==
    /\ HostCall
    /\ "railwayMonitor.setApiToken" \in commands
    /\ tokenCmd = Idle
    /\ ~Falsy(token)
    /\ configEvents < MaxConfigEvents
    /\ config' = NoToken
    /\ configEvents' = configEvents + 1
    /\ tokenCmd' = [pc |-> "setClearing", token |-> token]
    /\ UNCHANGED <<remote, cacheVars, pollVars, treeTimerVars, logVars, deactivated,
                   clientVars, authHeader, inits, sent, activationVars, keyVars>>

\* setApiToken: clearApiToken() completes, the trimmed token is written to
\* the settings
SetApiTokenCleared ==
    /\ LoopFree
    /\ tokenCmd.pc = "setClearing"
    /\ configEvents < MaxConfigEvents
    /\ apiToken' = NoToken
    /\ authHeader' = NoHeader
    /\ authErrors' = 0
    /\ config' = trim(tokenCmd.token)
    /\ configEvents' = configEvents + 1
    /\ tokenCmd' = [tokenCmd EXCEPT !.pc = "setSaving"]
    /\ UNCHANGED <<remote, cacheVars, pollVars, treeTimerVars, logVars, deactivated, call,
                   result, inits, sent, activationVars, keyVars>>

\* setApiToken: the setting is saved, initialize() is called
SetApiTokenSaved ==
    /\ LoopFree
    /\ tokenCmd.pc = "setSaving"
    /\ tokenCmd' = [tokenCmd EXCEPT !.pc = "initializing"]
    /\ InitializeStarts("setToken")
    /\ UNCHANGED <<remote, cacheVars, pollVars, treeTimerVars, logVars, deactivated, call,
                   result, authErrors, config, configEvents, activationVars, keyVars>>

\* a fetch operation of the client posts its query
Post ==
    /\ HostCall
    /\ sent' = Request(authHeader, apiToken)
    /\ UNCHANGED <<remote, cacheVars, pollVars, treeTimerVars, logVars, deactivated,
                   clientVars, config, authHeader, inits, configEvents, tokenCmd,
                   activationVars, keyVars>>

(***************************************************************************)
(* LogViewerPanel.                                                         *)
(***************************************************************************)
\* the resources a log view can be opened on: <<id, logType>>
LogResources == {<<"d1", "deployment">>, <<"s1", "application">>}

\* refreshLogs up to its await: the request is for the resource that is current now;
\* live says whether the panel that awaits the logs is still the current one
StartLogFetch(res, live) ==
    logFetches' = Append(logFetches, [resource |-> res, live |-> live, overtaken |-> FALSE])

\* the suspended refreshLogs calls when the i-th one has resumed; history:
\* the calls of the same panel for the same resource that started before
\* it and are still suspended have been overtaken
Resumed(fetches, i) ==
    LET marked == [j \in DOMAIN fetches |->
                      IF /\ j < i
                         /\ fetches[j].live /\ fetches[i].live
                         /\ fetches[j].resource = fetches[i].resource
                      THEN [fetches[j] EXCEPT !.overtaken = TRUE]
                      ELSE fetches[j]]
    IN [j \in 1..(Len(fetches) - 1) |-> IF j < i THEN marked[j] ELSE marked[j + 1]]

\* the command that opens the log view for a log type
ShowLogsCommand(logType) ==
    IF logType = "deployment" THEN "railwayMonitor.showDeploymentLogs"
    ELSE "railwayMonitor.showApplicationLogs"

\* createOrShow: `if (LogViewerPanel.currentPanel)`
ReusesMutant(panel) == FALSE
Reuses(panel) == panel

\* createOrShow: a live panel is revealed and updateResource switches it,
\* otherwise a new panel is created; both end in refreshLogs
CreateOrShow(res) ==
    /\ HostCall
    /\ ShowLogsCommand(res[2]) \in commands
    /\ Len(logFetches) < MaxLogFetches
    /\ IF Reuses(currentPanel)
       THEN UNCHANGED <<currentPanel, livePanels, autoRefreshInterval, autoMsgs, viewLogs>>
       ELSE /\ currentPanel' = TRUE
            /\ livePanels' = livePanels + 1
            /\ autoRefreshInterval' = FALSE
            /\ autoMsgs' = << >>
            /\ viewLogs' = None
    /\ resource' = res
    /\ StartLogFetch(res, TRUE)
    /\ UNCHANGED <<remote, cacheVars, pollVars, treeTimerVars, logTimers, deactivated,
                   clientVars, tokenVars, activationVars, keyVars, latePost>>

\* the webview's 'refresh' message
ManualRefresh ==
    /\ currentPanel
    /\ LoopFree
    /\ Len(logFetches) < MaxLogFetches
    /\ StartLogFetch(resource, TRUE)
    /\ UNCHANGED <<remote, cacheVars, pollVars, treeTimerVars, currentPanel, livePanels,
                   autoRefreshInterval, logTimers, autoMsgs, resource, viewLogs,
                   deactivated, clientVars, tokenVars, activationVars, keyVars, latePost>>

\* the webview's 'clearLogs' message
ClearLogs ==
    /\ currentPanel
    /\ LoopFree
    /\ viewLogs' = "clearLogs"
    /\ UNCHANGED <<remote, cacheVars, pollVars, treeTimerVars, currentPanel, livePanels,
                   autoRefreshInterval, logTimers, logFetches, autoMsgs, resource,
                   deactivated, clientVars, tokenVars, activationVars, keyVars, latePost>>

\* toggleAutoRefresh: the field, the live intervals and the message posted
toggleAutoRefreshMutant(interval, timers) ==
    IF interval
    THEN [interval |-> FALSE, timers |-> timers, msg |-> "autoRefreshStopped"]
    ELSE [interval |-> TRUE, timers |-> timers + 1, msg |-> "autoRefreshStarted"]
toggleAutoRefresh(interval, timers) ==
    IF interval
    THEN [interval |-> FALSE, timers |-> timers - 1, msg |-> "autoRefreshStopped"]
    ELSE [interval |-> TRUE, timers |-> timers + 1, msg |-> "autoRefreshStarted"]

\* the webview's 'toggleAutoRefresh' message
ToggleAutoRefreshMisreporting ==
    /\ currentPanel
    /\ LoopFree
    /\ Len(autoMsgs) < MaxToggles
    /\ LET t == toggleAutoRefresh(autoRefreshInterval, logTimers)
       IN /\ autoRefreshInterval' = t.interval
          /\ logTimers' = t.timers
          /\ autoMsgs' = Append(autoMsgs, "autoRefreshStarted")
    /\ UNCHANGED <<remote, cacheVars, pollVars, treeTimerVars, currentPanel, livePanels,
                   logFetches, resource, viewLogs, deactivated, clientVars, tokenVars,
                   activationVars, keyVars, latePost>>
ToggleAutoRefresh ==
    /\ currentPanel
    /\ LoopFree
    /\ Len(autoMsgs) < MaxToggles
    /\ LET t == toggleAutoRefresh(autoRefreshInterval, logTimers)
       IN /\ autoRefreshInterval' = t.interval
          /\ logTimers' = t.timers
          /\ autoMsgs' = Append(autoMsgs, t.msg)
    /\ UNCHANGED <<remote, cacheVars, pollVars, treeTimerVars, currentPanel, livePanels,
                   logFetches, resource, viewLogs, deactivated, clientVars, tokenVars,
                   activationVars, keyVars, latePost>>

\* the interval callback of toggleAutoRefresh: refreshLogs up to its await
LogTick ==
    /\ logTimers > 0
    /\ LoopFree
    /\ Len(logFetches) < MaxLogFetches
    /\ StartLogFetch(resource, currentPanel)
    /\ UNCHANGED <<remote, cacheVars, pollVars, treeTimerVars, currentPanel, livePanels,
                   autoRefreshInterval, logTimers, autoMsgs, resource, viewLogs,
                   deactivated, clientVars, tokenVars, activationVars, keyVars, latePost>>

\* the rest of refreshLogs: the logs of the requested resource are posted
\* as updateLogs with the logType that is current now.  The post goes to
\* this._panel.webview whether or not the panel has been disposed; what the
\* host does with a post to a disposed panel (drop it, or throw on the
\* access to the webview) is the host's choice: throws
LogFetchReturn(i, throws) ==
    /\ LoopFree
    /\ i \in 1..Len(logFetches)
    /\ logFetches' = Resumed(logFetches, i)
    /\ IF logFetches[i].live
       THEN /\ ~throws
            /\ viewLogs' = <<logFetches[i].resource[1], resource[2]>>
            /\ UNCHANGED latePost
       ELSE /\ latePost' = IF throws THEN "threw" ELSE "dropped"
            /\ UNCHANGED viewLogs
    /\ UNCHANGED <<remote, cacheVars, pollVars, treeTimerVars, currentPanel, livePanels,
                   autoRefreshInterval, logTimers, autoMsgs, resource, deactivated,
                   clientVars, tokenVars, activationVars, keyVars>>

\* dispose: the live intervals it leaves
dispose(interval, timers) == IF interval THEN timers - 1 ELSE timers

\* the panel is closed: onDidDispose calls dispose()
Dispose ==
    /\ currentPanel
    /\ LoopFree
    /\ currentPanel' = FALSE
    /\ livePanels' = livePanels - 1
    /\ logTimers' = dispose(autoRefreshInterval, logTimers)
    /\ autoRefreshInterval' = FALSE
    /\ logFetches' = [j \in 1..Len(logFetches) |-> [logFetches[j] EXCEPT !.live = FALSE]]
    /\ UNCHANGED <<remote, cacheVars, pollVars, treeTimerVars, autoMsgs, resource,
                   viewLogs, deactivated, clientVars, tokenVars, activationVars, keyVars,
                   latePost>>

(***************************************************************************)
(* Extension activation.                                                   *)
(***************************************************************************)
\* activate(): what it has set up when it returns.  The API client is
\* initialized by a setTimeout callback; the provider's constructor starts
\* the tree poll; the five commands are registered
activateMutant ==
    [commands |-> {}, initTimer |-> TRUE, refreshInterval |-> TRUE, treeTimers |-> 1]
activate ==
    [commands |-> Commands, initTimer |-> TRUE, refreshInterval |-> TRUE, treeTimers |-> 1]

\* the host activates the extension
Activate ==
    /\ ~activated
    /\ activated' = TRUE
    /\ commands' = commands \cup activate.commands
    /\ initTimer' = activate.initTimer
    /\ refreshInterval' = activate.refreshInterval
    /\ treeTimers' = activate.treeTimers
    /\ UNCHANGED <<remote, cacheVars, pollVars, logVars, deactivated, clientVars,
                   tokenVars, keyVars>>

(***************************************************************************)
(* Extension teardown.                                                     *)
(***************************************************************************)
\* stopAutoRefresh: the field and the live tree-poll intervals
stopAutoRefresh(interval, timers) ==
    IF interval THEN [interval |-> FALSE, timers |-> timers - 1]
    ELSE [interval |-> interval, timers |-> timers]

\* deactivate(): treeDataProvider.stopAutoRefresh()
Deactivate ==
    /\ ~deactivated
    /\ LoopFree
    /\ LET t == stopAutoRefresh(refreshInterval, treeTimers)
       IN /\ refreshInterval' = t.interval
          /\ treeTimers' = t.timers
    /\ deactivated' = TRUE
    /\ UNCHANGED <<remote, cacheVars, pollVars, logVars, clientVars, tokenVars,
                   activationVars, keyVars>>

\* startAutoRefresh: an interval the field holds is cleared, then the new
\* interval is created and assigned
startAutoRefreshLeaking(interval, timers) ==
    [interval |-> TRUE, timers |-> timers + 1]
startAutoRefresh(interval, timers) ==
    [interval |-> TRUE, timers |-> (IF interval THEN timers - 1 ELSE timers) + 1]

\* the public methods of the provider called on it, in any order
StartAutoRefresh ==
    /\ LoopFree
    /\ LET t == startAutoRefresh(refreshInterval, treeTimers)
       IN /\ refreshInterval' = t.interval
          /\ treeTimers' = t.timers
    /\ UNCHANGED <<remote, cacheVars, pollVars, logVars, deactivated, clientVars,
                   tokenVars, activationVars, keyVars>>
StopAutoRefresh ==
    /\ LoopFree
    /\ LET t == stopAutoRefresh(refreshInterval, treeTimers)
       IN /\ refreshInterval' = t.interval
          /\ treeTimers' = t.timers
    /\ UNCHANGED <<remote, cacheVars, pollVars, logVars, deactivated, clientVars,
                   tokenVars, activationVars, keyVars>>

(***************************************************************************)
(* Specifications.                                                         *)
(***************************************************************************)
\* the fields of the provider, the log viewer and the client as their
\* declarations leave them, and the setting; the credential of the client
\* is the one initialize() has set, if it has run
InitFieldsWith(setting, token, header, request) ==
    /\ projects = << >>
    /\ environments = EmptyMap
    /\ services = EmptyMap
    /\ deployments = EmptyMap
    /\ deploymentStatuses = EmptyMap
    /\ pending = [k \in FetchKeys |-> 0]
    /\ preClear = [k \in FetchKeys |-> 0]
    /\ fetchToken = NoFetchToken
    /\ clearedLevels = {}
    /\ lastHit = NoHit
    /\ ticksInFlight = 0
    /\ treeDirty = FALSE
    /\ notice = [d \in Deployments |-> "none"]
    /\ seen = [d \in Deployments |-> << >>]
    /\ events = << >>
    /\ currentPanel = FALSE
    /\ livePanels = 0
    /\ autoRefreshInterval = FALSE
    /\ logTimers = 0
    /\ logFetches = << >>
    /\ autoMsgs = << >>
    /\ resource = <<"d1", "deployment">>
    /\ viewLogs = None
    /\ latePost = "none"
    /\ deactivated = FALSE
    /\ apiToken = token
    /\ authErrors = 0
    /\ config = setting
    /\ authHeader = header
    /\ inits = << >>
    /\ configEvents = 0
    /\ tokenCmd = Idle
    /\ sent = request
    /\ keyUse = NoUse
InitFields(setting) == InitFieldsWith(setting, NoToken, NoHeader, NoRequest)
\* the state after activate() has returned: the commands registered, the
\* tree-poll interval started by the provider's constructor, the
\* background initialization scheduled
InitState(setting) ==
    /\ InitFields(setting)
    /\ refreshInterval = activate.refreshInterval
    /\ treeTimers = activate.treeTimers
    /\ commands = activate.commands
    /\ initTimer = activate.initTimer
    /\ activated = TRUE
InitProgram == InitState(<<"a">>)
Init ==
    /\ remote \in [Deployments -> Statuses]
    /\ InitProgram
    /\ call = NoCall
    /\ result = NoResult

\* a fetch operation of the client runs against the responses of its call
Invoke ==
    /\ ~result.done
    /\ call # NoCall
    /\ result' = Apply(call) @@ [done |-> TRUE]
    /\ UNCHANGED <<remote, cacheVars, pollVars, treeTimerVars, logVars, deactivated, call,
                   apiToken, authErrors, tokenVars, activationVars, keyVars>>

\* the fetch operations of the client, each on every combination of responses
InitApi ==
    /\ remote = [d \in Deployments |-> "SUCCESS"]
    /\ InitProgram
    /\ call \in ApiCalls
    /\ result = NoResult
NextApi == Invoke
SpecApi == InitApi /\ [][NextApi]_vars

FetchDeployments ==
    \/ \E it \in ServiceItems : GetChildrenService(it[1], it[2])
    \/ \E it \in ServiceItems, ok \in BOOLEAN : DeploymentsReturn(it[1], it[2], ok)

FetchKeyedLevels ==
    \/ GetChildrenProject("p1")
    \/ \E ok \in BOOLEAN : EnvironmentsReturn("p1", ok)
    \/ GetChildrenEnvironment("p1")
    \/ \E ok \in BOOLEAN : ServicesReturn("p1", ok)

FetchUpperLevels ==
    \/ GetChildrenRoot
    \/ \E ok \in BOOLEAN : ProjectsReturn(ok)
    \/ FetchKeyedLevels

CacheHits ==
    \/ GetChildrenHit("environments", environments, "p1")
    \/ GetChildrenHit("services", services, "p1")
    \/ \E it \in ServiceItems :
          GetChildrenHit("deployments", deployments, DeploymentsKey(it[1], it[2]))

Remote == \E d \in Deployments, status \in Statuses : RemoteChange(d, status)

LogView ==
    \/ \E res \in LogResources : CreateOrShow(res)
    \/ ManualRefresh
    \/ ClearLogs
    \/ ToggleAutoRefresh
    \/ LogTick
    \/ \E i \in 1..MaxLogFetches, throws \in BOOLEAN : LogFetchReturn(i, throws)
    \/ Dispose

\* the tree poll and the detection of status changes, with the history window
NextPoll ==
    \/ FetchDeployments
    \/ ClearCache
    \/ Remote
    \/ TickFire(TRUE)
    \/ TickResume
SpecPoll == Init /\ [][NextPoll]_vars

\* the tree poll kept ticking for ever (no history window) while the user
\* only expands the tree and never runs the refresh command
NextLive ==
    \/ FetchDeployments
    \/ Remote
    \/ TickFire(FALSE)
    \/ TickResume
SpecLive ==
    /\ Init
    /\ [][NextLive]_vars
    /\ WF_vars(TickFire(FALSE))
    /\ WF_vars(TickResume)
    /\ SF_vars(\E it \in ServiceItems, ok \in BOOLEAN : DeploymentsReturn(it[1], it[2], ok))

\* the four cache levels
NextCache ==
    \/ FetchUpperLevels
    \/ FetchDeployments
    \/ CacheHits
    \/ ClearCache
SpecCache == Init /\ [][NextCache]_vars

\* the three keyed cache levels while the tree poll ticks
NextKeyed ==
    \/ FetchKeyedLevels
    \/ FetchDeployments
    \/ CacheHits
    \/ ClearCache
    \/ TickFire(FALSE)
    \/ TickResume
SpecKeyed == Init /\ [][NextKeyed]_vars

\* the root of the tree re-read after every tick while the remote rejects
\* or accepts the credential, which the user leaves alone
ClearCommand ==
    \/ ClearApiToken
    \/ ClearApiTokenDone
SetCommand ==
    \/ \E token \in Tokens : SetApiToken(token)
    \/ SetApiTokenCleared
    \/ SetApiTokenSaved
Credential ==
    \/ ClearCommand
    \/ SetCommand
Initialize ==
    \/ BackgroundInitialize
    \/ OnDidChangeConfiguration
    \/ \E i \in 1..MaxInits, input \in Settings : PromptAnswered(i, input)
    \/ \E i \in 1..MaxInits : TokenSaved(i)
    \/ \E i \in 1..MaxInits, r \in InitializeResponses : IntrospectionAnswered(i, r)
    \/ \E i \in 1..MaxInits, r \in InitializeResponses : TestAnswered(i, r)
UserSettings ==
    \E value \in Settings : EditSettings(value)
NextAuth ==
    \/ AutoRender
    \/ \E ok \in BOOLEAN : ProjectsReturn(ok)
    \/ ProjectsRejected
    \/ TickFire(FALSE)
    \/ TickResume
SpecAuth == Init /\ [][NextAuth]_vars

\* the tree left expanded while the tree poll ticks for ever: after every
\* refresh() the view asks again for the root and for the children of the
\* expanded nodes, every request is answered, and the user runs no command
NextRetry ==
    \/ AutoRender
    \/ \E ok \in BOOLEAN : ProjectsReturn(ok)
    \/ FetchKeyedLevels
    \/ FetchDeployments
    \/ TickFire(FALSE)
    \/ TickResume
InitRetry ==
    /\ remote = [d \in Deployments |-> "SUCCESS"]
    /\ InitProgram
    /\ call = NoCall
    /\ result = NoResult
SpecRetry ==
    /\ InitRetry
    /\ [][NextRetry]_vars
    /\ WF_vars(TickFire(FALSE))
    /\ WF_vars(TickResume)
    /\ SF_vars(AutoRender)
    /\ SF_vars(GetChildrenProject("p1"))
    /\ SF_vars(GetChildrenEnvironment("p1"))
    /\ SF_vars(\E it \in ServiceItems : GetChildrenService(it[1], it[2]))
    /\ SF_vars(\E ok \in BOOLEAN : ProjectsReturn(ok))
    /\ SF_vars(\E ok \in BOOLEAN : EnvironmentsReturn("p1", ok))
    /\ SF_vars(\E ok \in BOOLEAN : ServicesReturn("p1", ok))
    /\ SF_vars(\E it \in ServiceItems, ok \in BOOLEAN : DeploymentsReturn(it[1], it[2], ok))

\* everything that runs while the status map lives: the tree poll, the
\* deployments cache and its refresh, the token commands, teardown
NextStatus ==
    \/ FetchDeployments
    \/ ClearCache
    \/ Remote
    \/ ClearCommand
    \/ Deactivate
    \/ TickFire(FALSE)
    \/ TickResume
SpecStatus == Init /\ [][NextStatus]_vars

\* the two timers, the log view and teardown
NextTimers ==
    \/ LogView
    \/ Deactivate
    \/ TickFire(FALSE)
    \/ TickResume
SpecTimers == Init /\ [][NextTimers]_vars

\* the credential: the token commands, the settings, every initialize()
\* call and the requests of the fetch operations, from any value of the
\* setting
InitToken ==
    /\ remote = [d \in Deployments |-> "SUCCESS"]
    /\ \E setting \in Settings : InitState(setting)
    /\ call = NoCall
    /\ result = NoResult
NextToken ==
    \/ Credential
    \/ Initialize
    \/ UserSettings
    \/ Post
SpecToken == InitToken /\ [][NextToken]_vars

\* the keyed cache levels read and refreshed while the user clears the token
\* ... from the state in which the background initialization has set the
\* credential from the setting
InitCredential ==
    /\ remote = [d \in Deployments |-> "SUCCESS"]
    /\ LET c == SetCredential(<<"a">>)
       IN InitFieldsWith(<<"a">>, c.apiToken, c.header, Request(c.header, c.apiToken))
    /\ refreshInterval = activate.refreshInterval
    /\ treeTimers = activate.treeTimers
    /\ commands = activate.commands
    /\ initTimer = FALSE
    /\ activated = TRUE
    /\ call = NoCall
    /\ result = NoResult
NextCredential ==
    \/ FetchKeyedLevels
    \/ FetchDeployments
    \/ CacheHits
    \/ ClearCache
    \/ ClearCommand
SpecCredential == InitCredential /\ [][NextCredential]_vars

\* the tree poll started and stopped through the provider's methods while
\* it ticks over the deployments cache
NextProvider ==
    \/ StartAutoRefresh
    \/ StopAutoRefresh
    \/ FetchDeployments
    \/ Remote
    \/ TickFire(FALSE)
    \/ TickResume
SpecProvider == Init /\ [][NextProvider]_vars

\* the deployments Map used by service items whose ids contain the
\* separator of the key
NextKey ==
    \/ \E item \in KeyItems : GetChildrenServiceItem(item)
    \/ \E ok \in BOOLEAN : ServiceItemReturn(ok)
    \/ \E item \in KeyItems : ServiceItemHit(item)
    \/ ClearCache
SpecKey == Init /\ [][NextKey]_vars

\* activation, the background initialization of the client and the token
\* commands, from the state before activate() is called
InitActivate ==
    /\ remote = [d \in Deployments |-> "SUCCESS"]
    /\ \E setting \in Settings : InitFields(setting)
    /\ refreshInterval = FALSE
    /\ treeTimers = 0
    /\ commands = {}
    /\ initTimer = FALSE
    /\ activated = FALSE
    /\ call = NoCall
    /\ result = NoResult
NextActivate ==
    \/ Activate
    \/ Initialize
    \/ Credential
SpecActivate == InitActivate /\ [][NextActivate]_vars

\* the keyed cache levels while the user only expands the tree and never
\* runs the refresh command
NextReplace ==
    \/ FetchKeyedLevels
    \/ FetchDeployments
    \/ CacheHits
SpecReplace == Init /\ [][NextReplace]_vars

\* initialize on every token and every combination of responses
InvokeInitialize ==
    /\ ~result.done
    /\ call.op = "initialize"
    /\ result' = initializeOn(call.token, call.responses) @@ [done |-> TRUE]
    /\ UNCHANGED <<remote, cacheVars, pollVars, treeTimerVars, logVars, deactivated, call,
                   apiToken, authErrors, tokenVars, activationVars, keyVars>>
InitInitialize ==
    /\ remote = [d \in Deployments |-> "SUCCESS"]
    /\ InitProgram
    /\ call \in InitializeCalls
    /\ result = NoResult
NextInitialize == InvokeInitialize
SpecInitialize == InitInitialize /\ [][NextInitialize]_vars

Next ==
    \/ Invoke
    \/ InvokeInitialize
    \/ ProjectsRejected
    \/ Credential
    \/ Initialize
    \/ UserSettings
    \/ Post
    \/ FetchUpperLevels
    \/ FetchDeployments
    \/ CacheHits
    \/ ClearCache
    \/ Remote
    \/ TickFire(TRUE)
    \/ TickResume
    \/ LogView
    \/ Activate
    \/ Deactivate
    \/ NextKey
Spec == Init /\ [][Next]_vars

(***************************************************************************)
(* Properties.                                                             *)
(***************************************************************************)
\* the events reported for deployment d, in order
EventsOf(d) == SelectSeq(events, LAMBDA e : e.id = d)
\* the number of adjacent pairs of differing statuses in a sequence
DifferingPairs(s) == Cardinality({i \in 1..(Len(s) - 1) : s[i] # s[i + 1]})
\* the statuses the deployments cache holds for deployment d
CachedStatuses(d) ==
    UNION {{deployments[k][i].status :
                i \in {j \in 1..Len(deployments[k]) : deployments[k][j].id = d}} :
           k \in DOMAIN deployments}

\* C1: for every deployment, the number of status changes the ticks reported
\* equals the number of adjacent differing pairs in the sequence of statuses
\* the ticks saw for it.
C1_ReportsEqualDifferingPairs ==
    \A d \in Deployments : Len(EventsOf(d)) = DifferingPairs(seen[d])
\* three ticks saw d: a change, then the same status again, and one report was made
C1_Witness ==
    \E d \in Deployments :
        /\ Len(seen[d]) = 3
        /\ seen[d][1] # seen[d][2]
        /\ seen[d][2] = seen[d][3]
        /\ Len(EventsOf(d)) = 1

\* C2: the first tick that sees a deployment records its status and reports
\* no transition and shows no notification, whatever the status.
C2_FirstObservationSilent ==
    \A d \in Deployments :
        Len(seen[d]) = 1 =>
            /\ MapGet(deploymentStatuses, d) = seen[d][1]
            /\ EventsOf(d) = << >>
            /\ notice[d] = "none"
C2_Witness ==
    \E d \in Deployments : Len(seen[d]) = 1 /\ seen[d][1] = "CRASHED"

\* C3: a reported change shows an information notification iff it goes from
\* BUILDING or DEPLOYING to SUCCESS, an error notification offering View Logs
\* iff it goes from BUILDING or DEPLOYING to FAILED or CRASHED, a warning
\* notification iff it goes from BUILDING or DEPLOYING to CANCELLED, and no
\* notification for every other pair.
C3_NotificationTable ==
    \A i \in 1..Len(events) :
        LET e == events[i]
            wasBuilding == e.from \in {"BUILDING", "DEPLOYING"}
        IN /\ e.from \in Statuses /\ e.to \in Statuses /\ e.from # e.to
           /\ e.kind = "information" <=> (wasBuilding /\ e.to = "SUCCESS")
           /\ (e.kind = "error" /\ "View Logs" \in e.actions)
                 <=> (wasBuilding /\ e.to \in {"FAILED", "CRASHED"})
           /\ e.kind = "error" => "View Logs" \in e.actions
           /\ e.kind = "warning" <=> (wasBuilding /\ e.to = "CANCELLED")
           /\ e.kind = "none"
                 <=> ~(wasBuilding /\ e.to \in {"SUCCESS", "FAILED", "CRASHED", "CANCELLED"})
\* a crash during deploying was reported as an error, and a removal as nothing
C3_Witness ==
    /\ \E i \in 1..Len(events) :
          events[i].from = "DEPLOYING" /\ events[i].to = "CRASHED" /\ events[i].kind = "error"
    /\ \E i \in 1..Len(events) :
          events[i].from = "CRASHED" /\ events[i].to = "REMOVED" /\ events[i].kind = "none"

\* C4: a deployment that three consecutive ticks see as BUILDING, DEPLOYING,
\* SUCCESS gets exactly one notification, the success notification for the
\* change from DEPLOYING to SUCCESS.
C4_BuildDeploySuccess ==
    \A d \in Deployments :
        seen[d] = <<"BUILDING", "DEPLOYING", "SUCCESS">> =>
            LET es == EventsOf(d)
            IN /\ Len(es) = 2
               /\ es[1].from = "BUILDING" /\ es[1].to = "DEPLOYING" /\ es[1].kind = "none"
               /\ es[2].from = "DEPLOYING" /\ es[2].to = "SUCCESS"
               /\ es[2].kind = "information"
               /\ notice[d] = "information"
C4_Witness ==
    \E d \in Deployments : seen[d] = <<"BUILDING", "DEPLOYING", "SUCCESS">>

\* C5: the status a tick compares and records for a deployment held in the
\* deployments cache is the status the remote reports at that tick.
C5_TickComparesRemoteStatus ==
    [][ticksInFlight' = ticksInFlight + 1 =>
          \A d \in Deployments :
              CachedStatuses(d) # {} => MapGet(deploymentStatuses', d) = remote[d]]_vars

\* the notification that matches a final status
MatchingNotice(status) ==
    CASE status = "SUCCESS" -> "information"
      [] status \in {"FAILED", "CRASHED"} -> "error"
      [] status = "CANCELLED" -> "warning"

\* C6: when a deployment held in the cache as BUILDING or DEPLOYING is at a
\* final status at the remote and the tree poll keeps ticking, the matching
\* notification is eventually shown (unless the remote moves on first).
C6_CompletionEventuallyNotified ==
    \A d \in Deployments :
        \A final \in {"SUCCESS", "FAILED", "CRASHED", "CANCELLED"} :
            (/\ CachedStatuses(d) # {}
             /\ CachedStatuses(d) \subseteq {"BUILDING", "DEPLOYING"}
             /\ remote[d] = final
             /\ notice[d] # MatchingNotice(final))
                ~> (notice[d] = MatchingNotice(final) \/ remote[d] # final)

\* C7: at most one tree-poll callback is started and not yet finished.
C7_OneTickOutstanding == ticksInFlight <= 1
\* a tick is outstanding over a populated cache while the interval is still live
C7_Witness ==
    /\ ticksInFlight = 1
    /\ treeTimers = 1
    /\ \E d \in Deployments : Len(seen[d]) = 2

\* C8: at most one log auto-refresh interval is live; toggling on, off, on
\* leaves exactly one, and a toggle that stops the interval leaves none.
C8_OneLogTimer ==
    /\ logTimers <= 1
    /\ currentPanel /\ autoMsgs # << >> /\ autoMsgs[Len(autoMsgs)] = "autoRefreshStopped"
          => logTimers = 0
    /\ currentPanel
          /\ autoMsgs = <<"autoRefreshStarted", "autoRefreshStopped", "autoRefreshStarted">>
          => logTimers = 1
C8_Witness ==
    /\ currentPanel
    /\ autoMsgs = <<"autoRefreshStarted", "autoRefreshStopped", "autoRefreshStarted">>
    /\ logTimers = 1
    /\ resource = <<"s1", "application">>

\* C9: after deactivate neither the tree-poll interval nor the log
\* auto-refresh interval is live.
C9_NoTimerAfterDeactivate ==
    deactivated => treeTimers = 0 /\ logTimers = 0

\* C10: right after clearCache the project list and the three maps are all
\* empty: every key it held is absent at every level.
C10_ClearCacheEmptiesAllLevels ==
    clearedLevels # {} =>
        /\ projects = << >>
        /\ DOMAIN environments = {}
        /\ DOMAIN services = {}
        /\ DOMAIN deployments = {}
\* clearCache has just emptied a cache that was populated at all four levels
C10_Witness ==
    clearedLevels = {"projects", "environments", "services", "deployments"}

\* the Map of a keyed cache level, and the Map key a fetch key stands for
LevelMap(level) ==
    CASE level = "environments" -> environments
      [] level = "services" -> services
      [] level = "deployments" -> deployments
MapKey(k) == IF k[1] = "deployments" THEN DeploymentsKey(k[2], k[3]) ELSE k[2]
KeyedFetches == {k \in FetchKeys : k[1] # "projects"}
Stored(k) == MapHas(LevelMap(k[1]), MapKey(k))
Entry(k) == LevelMap(k[1])[MapKey(k)]

\* C11 (as stated): while a list is stored under a key of the environments,
\* services or deployments map, no request is issued for that key, a
\* getChildren answered from the cache returns exactly the stored list, and
\* the stored list only goes away through clearCache, never changes.
C11_StoredListUntilClearCache ==
    [][\A k \in KeyedFetches :
          Stored(k) =>
              /\ pending'[k] <= pending[k]
              /\ Stored(k)' => Entry(k)' = Entry(k)
              /\ (lastHit' # lastHit /\ lastHit'.level = k[1] /\ lastHit'.key = MapKey(k))
                     => lastHit'.list = Entry(k)]_vars

\* C11 (amended): as above, except that the stored list is also replaced when
\* a fetch of the same key that was already in flight returns.
C11_StoredListUntilOverwritten ==
    [][\A k \in KeyedFetches :
          Stored(k) =>
              /\ pending'[k] <= pending[k]
              /\ Stored(k)' => (Entry(k)' = Entry(k) \/ pending'[k] < pending[k])
              /\ (lastHit' # lastHit /\ lastHit'.level = k[1] /\ lastHit'.key = MapKey(k))
                     => lastHit'.list = Entry(k)]_vars
\* an empty list was stored for the project's environments and a later
\* getChildren was answered with it from the cache
C11_Witness ==
    /\ MapHas(environments, "p1") /\ environments["p1"] = << >>
    /\ lastHit = [level |-> "environments", key |-> "p1", list |-> << >>]
    /\ pending[<<"environments", "p1", "">>] = 0

\* C12: once a project list has been fetched and stored, rendering the root
\* again issues no new getProjects request (the stored list is served) until
\* clearCache empties the slot.
C12_ProjectListServedFromCache ==
    [][projects # << >> =>
          pending'[<<"projects", "", "">>] <= pending[<<"projects", "", "">>]]_vars

\* the responses to the queries a call sends for its result (the
\* introspection query of getApplicationLogs is not one of them)
QueryResponses(c) ==
    LET from == IF c.op = "getApplicationLogs" THEN 2 ELSE 1
    IN {c.responses[i] : i \in from..Len(c.responses)}
\* a query attempt that failed: transport failure or HTTP error status, an
\* unreadable body, GraphQL errors, or no data of the expected shape
FailedAttempt(r) == Throws(r) \/ HasErrors(r) \/ ~HasField(r)
\* a query answered successfully with zero entries
AnsweredEmpty(r) == ~Throws(r) /\ ~HasErrors(r) /\ r.data = "empty"
LogOps == {"getDeploymentLogs", "getApplicationLogs"}

\* C13: no fetch operation of the client throws or rejects, and when every
\* query it sends fails (transport failure, 401/403, GraphQL errors,
\* unexpected shape) it returns the empty sequence.
C13_FetchNeverThrows ==
    result.done =>
        /\ ~result.threw
        /\ (\A r \in QueryResponses(call) : FailedAttempt(r)) => result.value = << >>
\* getDeploymentLogs has returned after each of its three POSTs was rejected
C13_Witness ==
    /\ result.done
    /\ call.op = "getDeploymentLogs"
    /\ \A r \in QueryResponses(call) : Rejects(r)
    /\ result.value = << >> /\ ~result.threw

\* C14: nothing a fetch operation returns is taken from a response that
\* carries errors, also when that response carries data as well; when
\* every query is answered with errors the result is empty.
C14_NothingFromErrorResponses ==
    result.done =>
        /\ result.from # 0 => ~HasErrors(call.responses[result.from])
        /\ (\A r \in QueryResponses(call) : ~Throws(r) /\ HasErrors(r)) => result.value = << >>
\* getProjectEnvironments has returned the empty list for a response that
\* carries both errors and a well-formed, non-empty data payload
C14_Witness ==
    /\ result.done
    /\ call.op = "getProjectEnvironments"
    /\ HasErrors(call.responses[1]) /\ call.responses[1].data = "full"
    /\ result.value = << >>

\* C18: the log operations warn only when every query attempt failed; when
\* the remote answers the queries successfully with zero log lines they
\* return the empty sequence and show no warning.
C18_WarningOnlyOnTotalFailure ==
    (result.done /\ call.op \in LogOps) =>
        /\ result.shown # << >> => \A r \in QueryResponses(call) : FailedAttempt(r)
        /\ (\A r \in QueryResponses(call) : AnsweredEmpty(r))
               => result.value = << >> /\ result.shown = << >>

\* C15: while the credential is not replaced or cleared, a rejected
\* credential is reported once, and after the report no further project
\* fetch is issued by the tree poll.
C15_AuthFailureSurfacedOnce ==
    /\ [](authErrors <= 1)
    /\ [][authErrors >= 1 =>
             pending'[<<"projects", "", "">>] <= pending[<<"projects", "", "">>]]_vars

\* C16: a fetch that fails leaves the cache as it was: it neither replaces
\* the known contents by an empty list nor stores an empty list under the key.
C16_FailedFetchKeepsCache ==
    [][/\ (ProjectsReturn(FALSE) \/ ProjectsRejected) => projects' = projects
       /\ EnvironmentsReturn("p1", FALSE) => environments' = environments
       /\ ServicesReturn("p1", FALSE) => services' = services
       /\ \A it \in ServiceItems :
             DeploymentsReturn(it[1], it[2], FALSE) => deployments' = deployments]_vars

\* a key whose fetch failed: the remote holds no empty list, so an empty
\* list held for the key is the [] of a failed fetch
FailedKey(k) ==
    /\ pending[k] = 0
    /\ IF k[1] = "projects" THEN projects = << >>
       ELSE Stored(k) /\ Entry(k) = << >>

\* C17: at every hierarchy level, a key whose fetch failed is fetched again
\* by the tree poll, with no user refresh.
C17_FailedFetchRetriedOnTick ==
    \A k \in FetchKeys : FailedKey(k) ~> (pending[k] > 0)

\* C19: when the log view is disposed while a refreshLogs fetch is in
\* flight, the result is discarded: no updateLogs message is posted to the
\* disposed panel and no error is raised.
C19_LateLogsDiscarded == latePost = "none"

\* C20: deploymentStatuses starts empty; no step removes a key or changes a
\* value except a tick, and a tick leaves, for every deployment it saw in
\* the cache, the status it saw.
C20_StatusMapOnlyGrows ==
    /\ deploymentStatuses = EmptyMap
    /\ [][/\ DOMAIN deploymentStatuses \subseteq DOMAIN deploymentStatuses'
          /\ IF ticksInFlight' = ticksInFlight + 1
             THEN \A d \in Deployments :
                      IF CachedStatuses(d) # {}
                      THEN /\ MapHas(deploymentStatuses', d)
                           /\ CachedStatuses(d) = {deploymentStatuses'[d]}
                      ELSE MapGet(deploymentStatuses', d) = MapGet(deploymentStatuses, d)
             ELSE deploymentStatuses' = deploymentStatuses]_vars
\* a status recorded by a tick is still there after the cache was cleared,
\* the token was cleared and the poll was stopped by deactivate
C20_Witness ==
    /\ MapHas(deploymentStatuses, "d1")
    /\ DOMAIN deployments = {}
    /\ apiToken = NoToken
    /\ deactivated /\ treeTimers = 0

\* a string without leading or trailing whitespace
Trimmed(s) == IF s = << >> THEN TRUE ELSE Head(s) # " " /\ s[Len(s)] # " "
\* a step in which clearApiToken() completes
ClearCompletes == tokenCmd.pc \in {"clearing", "setClearing"} /\ tokenCmd' # tokenCmd

\* C21: every request sent while the client holds a token carries
\* 'Authorization: Bearer <token>' with the whitespace-trimmed token; when
\* clearApiToken completes the header is gone, no request carries one while
\* it is gone, and it comes back only in a step of initialize that sets a
\* trimmed token together with its header and sends its first request
C21_RequestsCarryTrimmedBearer ==
    /\ [](~Falsy(sent.token) => sent.header = Bearer(sent.token) /\ Trimmed(sent.token))
    /\ [][ClearCompletes => authHeader' = NoHeader]_vars
    /\ [][authHeader' = NoHeader /\ sent' # sent => sent'.header = NoHeader]_vars
    /\ [][authHeader = NoHeader /\ authHeader' # NoHeader
            => /\ apiToken' # NoToken
               /\ Trimmed(apiToken')
               /\ authHeader' = Bearer(apiToken')
               /\ sent' = Request(authHeader', apiToken')
               /\ \E i \in DOMAIN inits' : inits'[i].pc = "introspection"]_vars
\* a request carries the trimmed token of a setting that has whitespace
\* around it
C21_Witness ==
    /\ config = <<" ", "b", " ">>
    /\ sent = Request(Bearer(<<"b">>), <<"b">>)
    /\ tokenCmd = Idle
    /\ authErrors = 0
    /\ treeDirty

\* the key of a service item
ItemKey(item) == DeploymentsKey(item[1], item[2])

\* C22: two different (serviceId, environmentId) pairs never read or write
\* the same entry of the deployments cache: the entry a service item reads
\* was written by a fetch for that item, also when the ids contain '-'
C22_PairsNeverShareEntry ==
    keyUse.reader # NoItem /\ MapHas(deployments, ItemKey(keyUse.reader))
        => keyUse.writer[ItemKey(keyUse.reader)] = keyUse.reader

\* a step in which the i-th suspended refreshLogs of the current panel
\* resumes and posts its updateLogs message
LogsPosted(i) ==
    IF i \in DOMAIN logFetches
    THEN /\ logFetches[i].live
         /\ logFetches' = Resumed(logFetches, i)
    ELSE FALSE

\* C23: each updateLogs message carries logs fetched for the resource and
\* the log type that are current when the message is posted, also when
\* updateResource switched the resource while the fetch was in flight
C23_LogsOfCurrentResource ==
    [][\A i \in 1..MaxLogFetches : LogsPosted(i) => viewLogs' = resource']_vars

\* C24: once activate has returned, the five commands are registered,
\* whether the background initialization of the client has not run yet,
\* is running, has succeeded or has failed
C24_CommandsRegistered == activated => Commands \subseteq commands
\* activate has returned, the background initialization has run and failed
\* for want of a token, and the commands are there
C24_Witness ==
    /\ activated
    /\ ~initTimer
    /\ inits = << >>
    /\ apiToken = NoToken
    /\ ~treeDirty
    /\ Commands \subseteq commands

\* C25: when a successful fetch returns, the entry of its key is exactly
\* the fetched list, whatever the key held before, and no other key of the
\* map changes
C25_FetchReplacesEntry ==
    [][/\ EnvironmentsReturn("p1", TRUE) =>
             /\ environments'["p1"] = getProjectEnvironments("p1", TRUE)
             /\ \A key \in DOMAIN environments \ {"p1"} :
                   MapHas(environments', key) /\ environments'[key] = environments[key]
       /\ ServicesReturn("p1", TRUE) =>
             /\ services'["p1"] = getServices("p1", TRUE)
             /\ \A key \in DOMAIN services \ {"p1"} :
                   MapHas(services', key) /\ services'[key] = services[key]
       /\ \A it \in ServiceItems :
             DeploymentsReturn(it[1], it[2], TRUE) =>
                 /\ deployments'[ItemKey(it)] = getDeployments(it[1], it[2], TRUE)
                 /\ \A key \in DOMAIN deployments \ {ItemKey(it)} :
                       /\ MapHas(deployments', key)
                       /\ deployments'[key] = deployments[key]]_vars
\* the environments entry of the project held the empty list of a failed
\* fetch when getChildren read it, and holds the fetched list now: a second
\* fetch, already in flight, replaced it
C25_Witness ==
    /\ lastHit = [level |-> "environments", key |-> "p1", list |-> << >>]
    /\ MapHas(environments, "p1")
    /\ environments["p1"] = getProjectEnvironments("p1", TRUE)
    /\ pending[<<"environments", "p1", "">>] = 0

\* every cached deployment has been compared: the status map holds the
\* status the cache holds for it
AllCompared ==
    \A key \in DOMAIN deployments :
        \A i \in DOMAIN deployments[key] :
            /\ MapHas(deploymentStatuses, deployments[key][i].id)
            /\ deploymentStatuses[deployments[key][i].id] = deployments[key][i].status

\* C26: a tick first compares the status of every cached deployment
\* (noticing the changes) and fires the tree's change signal only after
\* that, with nothing run in between; every tick fires the signal once:
\* in the one step that ends it, which every tick reaches
C26_CompareThenFireOnce ==
    /\ [][ticksInFlight' > ticksInFlight => AllCompared' /\ treeDirty' = treeDirty]_vars
    /\ [][ticksInFlight' < ticksInFlight =>
             /\ ticksInFlight' = ticksInFlight - 1
             /\ AllCompared
             /\ treeDirty'
             /\ UNCHANGED <<deploymentStatuses, notice, deployments>>]_vars
    /\ [](ticksInFlight > 0 => ~ENABLED AutoRender)
    /\ (ticksInFlight > 0 ~> (ticksInFlight = 0 /\ treeDirty))
\* a tick has compared the cached deployment and fired the signal after the
\* view had consumed the signal of an earlier tick
C26_Witness ==
    /\ ticksInFlight = 0
    /\ treeDirty
    /\ DOMAIN deployments # {}
    /\ AllCompared
    /\ \E k \in FetchKeys : pending[k] > 0

\* C27 (as stated): at most one request per cache key is in flight at any
\* time: a getChildren call for a key whose fetch is in flight issues no
\* request of its own.
C27_OneRequestPerKey == \A k \in KeyedFetches : pending[k] <= 1

\* C27 (amended): requests for the same key are not coalesced.  Every
\* getChildren call that finds no entry under its key issues one request
\* of its own, also while another one is in flight, and none is issued
\* while the key has an entry; every response settles exactly the call
\* that sent its request and leaves an entry under the key.
C27_DuplicateRequestsAllowed ==
    [][\A k \in KeyedFetches :
          /\ pending'[k] > pending[k] => pending'[k] = pending[k] + 1 /\ ~Stored(k)
          /\ pending'[k] < pending[k] => pending'[k] = pending[k] - 1 /\ Stored(k)']_vars
\* two requests for the environments of the same project are in flight
C27_Witness ==
    /\ pending[<<"environments", "p1", "">>] = 2
    /\ ~MapHas(environments, "p1")

\* C28: at most one log view exists, and LogViewerPanel.currentPanel is
\* set exactly while it exists; createOrShow on a live panel creates no
\* panel, switches the resource, fetches its logs and leaves the
\* auto-refresh timer as it is; when a panel is disposed its timer is cleared in the same step, so
\* that no timer is live while the slot is free
C28_OneLogView ==
    /\ [](livePanels <= 1 /\ (currentPanel <=> livePanels = 1))
    /\ [](~currentPanel => logTimers = 0 /\ ~autoRefreshInterval)
    /\ [][currentPanel /\ (resource' # resource \/ Len(logFetches') > Len(logFetches)) =>
             /\ logFetches' = Append(logFetches, [resource |-> resource', live |-> TRUE,
                                                  overtaken |-> FALSE])
             /\ UNCHANGED <<currentPanel, livePanels, autoRefreshInterval, logTimers>>]_vars
    /\ [][livePanels' < livePanels => ~currentPanel' /\ logTimers' = 0]_vars
\* createOrShow has switched a live panel with a running auto-refresh
\* timer to another resource
C28_Witness ==
    /\ currentPanel
    /\ livePanels = 1
    /\ logTimers = 1
    /\ resource = <<"s1", "application">>
    /\ Len(logFetches) = 2
    /\ logFetches[1].live /\ logFetches[1].resource = <<"d1", "deployment">>
    /\ logFetches[2].live /\ logFetches[2].resource = resource
    /\ autoMsgs = <<"autoRefreshStarted">>

\* the error messages that contain 'not authorized' in some letter case
NotAuthorizedMessages ==
    {<<"not", "authorized">>, <<"Not", "Authorized">>, <<"User", "is", "NOT", "AUTHORIZED">>}
\* the test request of the call was sent and its response could be read
TestAnswer(c) ==
    /\ ~Falsy(c.token)
    /\ c.responses[1].http = "ok"
    /\ c.responses[2].http = "ok"
    /\ c.responses[2].body \notin {"null", "html"}

\* C29: initialize returns false without a token, when the test request
\* fails at transport level (401 and 403 included), when the response is an
\* HTML page, and when it carries GraphQL errors whose first message does
\* not contain 'not authorized'; it returns true when the test request
\* succeeds, and when the first error message contains 'not authorized' in
\* any letter case; it never throws
C29_InitializeResult ==
    result.done =>
        LET test == call.responses[2]
        IN /\ ~result.threw
           /\ result.value \in BOOLEAN
           /\ Falsy(call.token) => result.value = FALSE
           /\ test.http # "ok" => result.value = FALSE
           /\ test.body = "html" => result.value = FALSE
           /\ (test.errors # "none" /\ test.message \notin NotAuthorizedMessages)
                 => result.value = FALSE
           /\ (TestAnswer(call) /\ test.errors = "none") => result.value = TRUE
           /\ (TestAnswer(call) /\ test.errors # "none"
                 /\ test.message \in NotAuthorizedMessages) => result.value = TRUE
\* initialize has returned true on an error message that has 'not
\* authorized' in capitals
C29_Witness ==
    /\ result.done
    /\ result.value = TRUE
    /\ call.responses[2].message = <<"User", "is", "NOT", "AUTHORIZED">>

\* C30: the client has an Authorization header exactly while it holds a
\* token, the header is then 'Bearer ' followed by that token, and a
\* request sent while no token is held carries no header: in particular
\* not the previous token's, after an initialize that found no token.
\* (A token that is the empty string is taken for held or not held, as
\* suits the claim.)
C30_HeaderIffToken ==
    /\ apiToken = NoToken => authHeader = NoHeader
    /\ ~Falsy(apiToken) => authHeader = Bearer(apiToken)
    /\ sent.token = NoToken => sent.header = NoHeader

\* C31: a getChildren fetch that was in flight when clearCache ran does
\* not write its result into the cleared cache: when such a call resumes,
\* the entry of its key stays as it is (absent, or what a request issued
\* after the clearCache stored)
C31_NoWriteFromBeforeClear ==
    [][\A k \in KeyedFetches :
          preClear'[k] < preClear[k] =>
              /\ Stored(k)' <=> Stored(k)
              /\ Stored(k) => Entry(k)' = Entry(k)]_vars

\* C32: the updateLogs messages of overlapping refreshLogs calls for the
\* same resource reach the view in the order the calls started: no call
\* posts its logs after a call that started later has posted, so the view
\* never shows an older result over a newer one
C32_LogsPostedInStartOrder ==
    [][\A i \in 1..MaxLogFetches : LogsPosted(i) => ~logFetches[i].overtaken]_vars

\* C33: clearCache leaves the last-known statuses as they are, and a tick
\* reports, for every deployment it finds in the cache at a status other
\* than the last known one, that change once and no other: a change that
\* straddles a manual refresh is reported by the first tick after the
\* re-fetch, and not again by the tick after it.
C33_ChangeAcrossRefreshReported ==
    [][/\ (clearedLevels' # {} /\ DOMAIN deployments' = {}) =>
              deploymentStatuses' = deploymentStatuses
       /\ ticksInFlight' = ticksInFlight + 1 =>
              \A d \in Deployments :
                  LET s == MapGet(deploymentStatuses, d)
                  IN IF s # None /\ CachedStatuses(d) # {} /\ CachedStatuses(d) # {s}
                     THEN \E t \in CachedStatuses(d) :
                              /\ Len(EventsOf(d)') = Len(EventsOf(d)) + 1
                              /\ EventsOf(d)'[Len(EventsOf(d)')].from = s
                              /\ EventsOf(d)'[Len(EventsOf(d)')].to = t
                              /\ deploymentStatuses'[d] = t
                     ELSE EventsOf(d)' = EventsOf(d)]_vars
\* a tick recorded d1, the refresh command then emptied the cache, and the
\* platform has d1 at another status than the one the tick recorded
C33_Witness ==
    /\ "deployments" \in clearedLevels
    /\ DOMAIN deployments = {}
    /\ seen["d1"] # << >>
    /\ MapHas(deploymentStatuses, "d1")
    /\ remote["d1"] # deploymentStatuses["d1"]

\* C34: a list of environments, services or deployments that getChildren
\* renders from the cache was fetched with the token that is current when
\* it is rendered: no list cached under an earlier credential is rendered
\* after the token was replaced or cleared.
C34_RenderedWithCurrentToken ==
    [][\A k \in KeyedFetches :
          (lastHit' # lastHit /\ lastHit'.level = k[1] /\ lastHit'.key = MapKey(k))
              => fetchToken.wrote[k] = {apiToken}]_vars

\* C35 (the deployments Map): every deployment in the list the Map holds
\* under the key of a (service, environment) pair carries that serviceId
\* and that environmentId, whatever fetches and refreshes went before.
C35_EntriesCarryTheirKey ==
    \A item \in KeyItems \cup ServiceItems :
        MapHas(deployments, ItemKey(item)) =>
            \A i \in DOMAIN deployments[ItemKey(item)] :
                /\ deployments[ItemKey(item)][i].serviceId = item[1]
                /\ deployments[ItemKey(item)][i].environmentId = item[2]

\* C36: whatever startAutoRefresh and stopAutoRefresh calls went before,
\* at most one tree-poll interval is live, and it is the one the field
\* holds: one after the constructor and after every startAutoRefresh, none
\* after stopAutoRefresh, which changes nothing when none is live.
C36_AtMostOneTreeTimer ==
    /\ refreshInterval = TRUE /\ treeTimers = 1
    /\ [](treeTimers = (IF refreshInterval THEN 1 ELSE 0))
    /\ [][(~refreshInterval /\ ~refreshInterval') => treeTimers' = treeTimers]_vars
\* stopAutoRefresh has cleared the interval while a callback of it was
\* suspended, and the callback has resumed since; no interval is live
C36_Witness ==
    /\ ~refreshInterval
    /\ treeTimers = 0
    /\ ~deactivated
    /\ ticksInFlight = 0
    /\ treeDirty

\* C37: on a live panel, whatever toggleAutoRefresh and updateResource
\* calls went before, the autoRefreshStarted and autoRefreshStopped
\* messages posted to its view alternate, beginning with
\* autoRefreshStarted, and the last one is autoRefreshStarted exactly when
\* the panel holds an auto-refresh interval.
C37_IndicatorMatchesTimer ==
    currentPanel =>
        /\ \A i \in DOMAIN autoMsgs :
              autoMsgs[i] = (IF i % 2 = 1 THEN "autoRefreshStarted" ELSE "autoRefreshStopped")
        /\ autoRefreshInterval <=>
              (autoMsgs # << >> /\ autoMsgs[Len(autoMsgs)] = "autoRefreshStarted")
\* the panel was switched to another resource while its first fetch was
\* suspended, and auto-refresh was toggled on, off and on again
C37_Witness ==
    /\ currentPanel
    /\ autoRefreshInterval
    /\ Len(autoMsgs) = 3
    /\ Len(logFetches) = 2
    /\ logFetches[1].live /\ logFetches[2].live
    /\ logFetches[1].resource # logFetches[2].resource

====
